---- MODULE Spec2Model ----
(***************************************************************************)
(* State-machine model of the SteamCMD install runner (src/src/install.ts):*)
(* option validation, argument construction, progress parsing and the      *)
(* child-process lifecycle behind install() and installWithProgress().     *)
(*                                                                         *)
(* Text (stream chunks, option strings, argument tokens) is a sequence of  *)
(* one-character strings, so that concatenation, formatting and parsing    *)
(* are computed and not assumed.                                           *)
(***************************************************************************)
EXTENDS Integers, Sequences, FiniteSets, TLC

(***************************************************************************)
(* Bounds of the model.                                                    *)
(***************************************************************************)
\* number of data chunks (stdout and stderr together) a child may write
MaxChunks == 2

(***************************************************************************)
(* JavaScript values.  A value is a record [t, n, s]: t is the kind, n an  *)
(* integer payload, s a text payload.  Kinds "int", "frac", "negfrac",     *)
(* "nan", "inf" all have typeof "number"; "frac" is n + 0.s and "negfrac"  *)
(* is -(n + 0.s) with s a non-zero run of decimal digits.                  *)
(***************************************************************************)
Undef == [t |-> "undefined", n |-> 0, s |-> <<>>]

Null == [t |-> "null", n |-> 0, s |-> <<>>]

NaN == [t |-> "nan", n |-> 0, s |-> <<>>]

Num(k) == [t |-> "int", n |-> k, s |-> <<>>]

Frac(k, digits) == [t |-> "frac", n |-> k, s |-> digits]

NegFrac(k, digits) == [t |-> "negfrac", n |-> k, s |-> digits]

Inf(sign) == [t |-> "inf", n |-> sign, s |-> <<>>]

Str(chars) == [t |-> "string", n |-> 0, s |-> chars]

Fn == [t |-> "function", n |-> 0, s |-> <<>>]

TypeOf(v) ==
  IF v.t \in {"int", "frac", "negfrac", "nan", "inf"} THEN "number"
  ELSE IF v.t = "null" THEN "object"
  ELSE v.t

\* JavaScript truthiness (the `!x` and `x && y` tests of the source)
Truthy(v) ==
  CASE v.t = "undefined" -> FALSE
    [] v.t = "null" -> FALSE
    [] v.t = "nan" -> FALSE
    [] v.t = "int" -> v.n # 0
    [] v.t = "string" -> v.s # <<>>
    [] OTHER -> TRUE

Digits == {"0", "1", "2", "3", "4", "5", "6", "7", "8", "9"}

Whitespace == {" ", "\t", "\n", "\r"}

DigitVal(c) ==
  CASE c = "0" -> 0 [] c = "1" -> 1 [] c = "2" -> 2 [] c = "3" -> 3
    [] c = "4" -> 4 [] c = "5" -> 5 [] c = "6" -> 6 [] c = "7" -> 7
    [] c = "8" -> 8 [] c = "9" -> 9

DigitChar(d) ==
  <<"0", "1", "2", "3", "4", "5", "6", "7", "8", "9">>[d + 1]

AllIn(chars, set) == \A i \in 1..Len(chars) : chars[i] \in set

\* value of a run of decimal digits (parseInt(run, 10) on /\d+/ captures)
RECURSIVE DigitsValue(_)
DigitsValue(chars) ==
  IF chars = <<>> THEN 0
  ELSE 10 * DigitsValue(SubSeq(chars, 1, Len(chars) - 1))
         + DigitVal(chars[Len(chars)])

\* decimal rendering of a non-negative integer
RECURSIVE NatToChars(_)
NatToChars(k) ==
  IF k < 10 THEN <<DigitChar(k)>>
  ELSE NatToChars(k \div 10) \o <<DigitChar(k % 10)>>

IntToChars(k) == IF k < 0 THEN <<"-">> \o NatToChars(-k) ELSE NatToChars(k)

RECURSIVE TrimLeft(_)
TrimLeft(chars) ==
  IF chars # <<>> /\ Head(chars) \in Whitespace THEN TrimLeft(Tail(chars))
  ELSE chars

RECURSIVE TrimRight(_)
TrimRight(chars) ==
  IF chars # <<>> /\ chars[Len(chars)] \in Whitespace
  THEN TrimRight(SubSeq(chars, 1, Len(chars) - 1))
  ELSE chars

\* index of the first "." of chars, 0 when there is none
DotIndex(chars) ==
  IF \E i \in 1..Len(chars) : chars[i] = "."
  THEN CHOOSE i \in 1..Len(chars) :
         chars[i] = "." /\ \A j \in 1..(i - 1) : chars[j] # "."
  ELSE 0

\* unsigned decimal literal -> number value (NaN when it is not one)
UnsignedToNumber(body, negative) ==
  LET dot == DotIndex(body)
      ip == IF dot = 0 THEN body ELSE SubSeq(body, 1, dot - 1)
      fp == IF dot = 0 THEN <<>> ELSE SubSeq(body, dot + 1, Len(body))
  IN IF body = <<"I", "n", "f", "i", "n", "i", "t", "y">>
       THEN Inf(IF negative THEN -1 ELSE 1)
     ELSE IF ~(AllIn(ip, Digits) /\ AllIn(fp, Digits)) \/ (ip = <<>> /\ fp = <<>>)
       THEN NaN
     ELSE IF AllIn(fp, {"0"})
       THEN Num(IF negative THEN -DigitsValue(ip) ELSE DigitsValue(ip))
     ELSE IF negative THEN NegFrac(DigitsValue(ip), fp)
     ELSE Frac(DigitsValue(ip), fp)

\* Number(string): trims white space, "" is 0, optional sign, decimal
\* literal or Infinity; anything else is NaN.  Exponents and radix
\* prefixes are outside the modelled inputs.
StringToNumber(chars) ==
  LET t == TrimRight(TrimLeft(chars))
  IN IF t = <<>> THEN Num(0)
     ELSE IF Head(t) = "-" THEN UnsignedToNumber(Tail(t), TRUE)
     ELSE IF Head(t) = "+" THEN UnsignedToNumber(Tail(t), FALSE)
     ELSE UnsignedToNumber(t, FALSE)

\* Number(v)
ToNumber(v) ==
  CASE v.t = "undefined" -> NaN
    [] v.t = "null" -> Num(0)
    [] v.t = "string" -> StringToNumber(v.s)
    [] v.t = "function" -> NaN
    [] OTHER -> v

IsNaN(v) == v.t = "nan"

\* v <= 0 for a number value (false for NaN)
LeqZero(v) ==
  CASE v.t = "int" -> v.n <= 0
    [] v.t = "negfrac" -> TRUE
    [] v.t = "inf" -> v.n < 0
    [] OTHER -> FALSE

IsInteger(v) == v.t = "int"

\* String(v), as a template literal renders it
ToText(v) ==
  CASE v.t = "string" -> v.s
    [] v.t = "int" -> IntToChars(v.n)
    [] v.t = "frac" -> NatToChars(v.n) \o <<".">> \o v.s
    [] v.t = "negfrac" -> <<"-">> \o NatToChars(v.n) \o <<".">> \o v.s
    [] v.t = "nan" -> <<"N", "a", "N">>
    [] v.t = "inf" ->
         (IF v.n < 0 THEN <<"-">> ELSE <<>>)
           \o <<"I", "n", "f", "i", "n", "i", "t", "y">>
    [] v.t = "null" -> <<"n", "u", "l", "l">>
    [] OTHER -> <<"u", "n", "d", "e", "f", "i", "n", "e", "d">>

(***************************************************************************)
(* InstallOptions.  `kind` is what the options argument itself is: an      *)
(* object, or null / undefined / a string (rejected by validateOptions).   *)
(***************************************************************************)
NoOptions(kind) ==
  [kind |-> kind, applicationId |-> Undef, workshopId |-> Undef,
   path |-> Undef, username |-> Undef, password |-> Undef,
   steamGuardCode |-> Undef, platform |-> Undef,
   onProgress |-> Undef, onOutput |-> Undef]

EmptyOptions == NoOptions("object")

VALID_PLATFORMS ==
  << <<"w", "i", "n", "d", "o", "w", "s">>,
     <<"m", "a", "c", "o", "s">>,
     <<"l", "i", "n", "u", "x">> >>

\* variant: the integer test is left out
InvalidId_NoIntegerCheck(v) == IsNaN(ToNumber(v)) \/ LeqZero(ToNumber(v))

\* `Number.isNaN(id) || id <= 0 || !Number.isInteger(id)` for id = Number(v)
InvalidId(v) ==
  IsNaN(ToNumber(v)) \/ LeqZero(ToNumber(v)) \/ ~IsInteger(ToNumber(v))

\* variant: only the password is tested against a missing username
MissingUsername_PasswordOnly(options) ==
  Truthy(options.password) /\ ~Truthy(options.username)

\* the two tests that throw MISSING_USERNAME
MissingUsername(options) ==
  \/ Truthy(options.password) /\ ~Truthy(options.username)
  \/ Truthy(options.steamGuardCode) /\ ~Truthy(options.username)

\* variant: workshopId is validated before applicationId is required
validateOptions_WorkshopIdFirst(options) ==
  IF options.kind # "object" THEN "INVALID_OPTIONS"
  ELSE IF options.applicationId # Undef /\ InvalidId(options.applicationId)
    THEN "INVALID_APP_ID"
  ELSE IF options.workshopId # Undef /\ InvalidId(options.workshopId)
    THEN "INVALID_WORKSHOP_ID"
  ELSE IF options.workshopId # Undef /\ ~Truthy(options.applicationId)
    THEN "MISSING_APP_ID"
  ELSE IF options.platform # Undef
          /\ ~(\E i \in 1..Len(VALID_PLATFORMS) :
                  options.platform = Str(VALID_PLATFORMS[i]))
    THEN "INVALID_PLATFORM"
  ELSE IF MissingUsername(options) THEN "MISSING_USERNAME"
  ELSE ""

\* the error code validateOptions throws, "" when it returns normally
validateOptions(options) ==
  IF options.kind # "object" THEN "INVALID_OPTIONS"
  ELSE IF options.applicationId # Undef /\ InvalidId(options.applicationId)
    THEN "INVALID_APP_ID"
  ELSE IF options.workshopId # Undef /\ ~Truthy(options.applicationId)
    THEN "MISSING_APP_ID"
  ELSE IF options.workshopId # Undef /\ InvalidId(options.workshopId)
    THEN "INVALID_WORKSHOP_ID"
  ELSE IF options.platform # Undef
          /\ ~(\E i \in 1..Len(VALID_PLATFORMS) :
                  options.platform = Str(VALID_PLATFORMS[i]))
    THEN "INVALID_PLATFORM"
  ELSE IF MissingUsername(options) THEN "MISSING_USERNAME"
  ELSE ""

(***************************************************************************)
(* createArguments: the ordered list of command-line tokens.               *)
(***************************************************************************)
\* `+@sSteamCmdForcePlatformType ${options.platform}` when platform is truthy
PlatformTokens(options) ==
  IF Truthy(options.platform)
  THEN << <<"+", "@", "s", "S", "t", "e", "a", "m", "C", "m", "d", "F", "o", "r", "c", "e", "P", "l", "a", "t", "f", "o", "r", "m", "T", "y", "p", "e", " ">>
          \o ToText(options.platform) >>
  ELSE <<>>

\* the two fixed tokens pushed after it
FixedTokens ==
  << <<"+", "@", "N", "o", "P", "r", "o", "m", "p", "t", "F", "o", "r", "P", "a", "s", "s", "w", "o", "r", "d", " ", "1">>,
     <<"+", "@", "S", "h", "u", "t", "d", "o", "w", "n", "O", "n", "F", "a", "i", "l", "e", "d", "C", "o", "m", "m", "a", "n", "d", " ", "1">> >>

\* `+set_steam_guard_code ${options.steamGuardCode}` when the code is truthy
SteamGuardTokens(options) ==
  IF Truthy(options.steamGuardCode)
  THEN << <<"+", "s", "e", "t", "_", "s", "t", "e", "a", "m", "_", "g", "u", "a", "r", "d", "_", "c", "o", "d", "e", " ">>
          \o ToText(options.steamGuardCode) >>
  ELSE <<>>

\* variant: the password is never passed on
LoginTokens_UsernameOnly(options) ==
  IF Truthy(options.username)
  THEN << <<"+", "l", "o", "g", "i", "n", " ">> \o ToText(options.username) >>
  ELSE << <<"+", "l", "o", "g", "i", "n", " ", "a", "n", "o", "n", "y", "m", "o", "u", "s">> >>

\* the login token: username and password, username alone, or anonymous
LoginTokens(options) ==
  IF Truthy(options.username) /\ Truthy(options.password)
  THEN << <<"+", "l", "o", "g", "i", "n", " ">> \o ToText(options.username)
          \o <<" ">> \o ToText(options.password) >>
  ELSE IF Truthy(options.username)
  THEN << <<"+", "l", "o", "g", "i", "n", " ">> \o ToText(options.username) >>
  ELSE << <<"+", "l", "o", "g", "i", "n", " ", "a", "n", "o", "n", "y", "m", "o", "u", "s">> >>

\* `+force_install_dir "${options.path}"` when path is truthy
InstallDirTokens(options) ==
  IF Truthy(options.path)
  THEN << <<"+", "f", "o", "r", "c", "e", "_", "i", "n", "s", "t", "a", "l", "l", "_", "d", "i", "r", " ", "\"">>
          \o ToText(options.path) \o <<"\"">> >>
  ELSE <<>>

\* variant: app_update pushed whenever applicationId is truthy
AppUpdateTokens_WithWorkshop(options) ==
  IF Truthy(options.applicationId)
  THEN << <<"+", "a", "p", "p", "_", "u", "p", "d", "a", "t", "e", " ">>
          \o ToText(options.applicationId)
          \o <<" ", "v", "a", "l", "i", "d", "a", "t", "e">> >>
  ELSE <<>>

\* `+app_update ${applicationId} validate` without a workshopId
AppUpdateTokens(options) ==
  IF Truthy(options.applicationId) /\ ~Truthy(options.workshopId)
  THEN << <<"+", "a", "p", "p", "_", "u", "p", "d", "a", "t", "e", " ">>
          \o ToText(options.applicationId)
          \o <<" ", "v", "a", "l", "i", "d", "a", "t", "e">> >>
  ELSE <<>>

\* "+workshop_download_item " + applicationId + " " + workshopId
WorkshopTokens(options) ==
  IF Truthy(options.applicationId) /\ Truthy(options.workshopId)
  THEN << <<"+", "w", "o", "r", "k", "s", "h", "o", "p", "_", "d", "o", "w", "n", "l", "o", "a", "d", "_", "i", "t", "e", "m", " ">>
          \o ToText(options.applicationId) \o <<" ">>
          \o ToText(options.workshopId) >>
  ELSE <<>>

QuitTokens == << <<"+", "q", "u", "i", "t">> >>

\* variant: the platform token pushed after the fixed tokens
createArguments_PlatformLate(options) ==
  FixedTokens \o PlatformTokens(options) \o SteamGuardTokens(options)
  \o LoginTokens(options) \o InstallDirTokens(options)
  \o AppUpdateTokens(options) \o WorkshopTokens(options) \o QuitTokens

\* variant: the steam guard code pushed after the login
createArguments_GuardAfterLogin(options) ==
  PlatformTokens(options) \o FixedTokens \o LoginTokens(options)
  \o SteamGuardTokens(options) \o InstallDirTokens(options)
  \o AppUpdateTokens(options) \o WorkshopTokens(options) \o QuitTokens

createArguments(options) ==
  PlatformTokens(options) \o FixedTokens \o SteamGuardTokens(options)
  \o LoginTokens(options) \o InstallDirTokens(options)
  \o AppUpdateTokens(options) \o WorkshopTokens(options) \o QuitTokens

(***************************************************************************)
(* parseProgress: three regular expressions tried in order on the whole    *)
(* chunk, each searched leftmost-first and case-insensitively.  Every      *)
(* repeated class of the three patterns is followed by a character outside *)
(* the class, so the only run that can match is the maximal one.           *)
(***************************************************************************)
UpperAlpha ==
  <<"A", "B", "C", "D", "E", "F", "G", "H", "I", "J", "K", "L", "M", "N", "O", "P", "Q", "R", "S", "T", "U", "V", "W", "X", "Y", "Z">>

LowerAlpha ==
  <<"a", "b", "c", "d", "e", "f", "g", "h", "i", "j", "k", "l", "m", "n", "o", "p", "q", "r", "s", "t", "u", "v", "w", "x", "y", "z">>

\* the lower-case letter of every upper-case letter
LowerOf ==
  [c \in {UpperAlpha[i] : i \in 1..26} |->
     LowerAlpha[CHOOSE i \in 1..26 : UpperAlpha[i] = c]]

\* String.prototype.toLowerCase on one character
LowerChar(c) == IF c \in DOMAIN LowerOf THEN LowerOf[c] ELSE c

ToLowerCase(chars) == [i \in 1..Len(chars) |-> LowerChar(chars[i])]

\* membership of a character in a character class of the patterns:
\* \d, [\da-f] and \w under the i flag, [\d.], [^\d], # and \s
InClass(cls, c) ==
  CASE cls = "digit" -> c \in Digits
    [] cls = "hex" ->
         c \in Digits \/ LowerChar(c) \in {"a", "b", "c", "d", "e", "f"}
    [] cls = "word" ->
         c \in Digits \/ c = "_" \/ \E i \in 1..26 : LowerAlpha[i] = LowerChar(c)
    [] cls = "digitOrDot" -> c \in Digits \/ c = "."
    [] cls = "nonDigit" -> c \notin Digits
    [] cls = "hash" -> c = "#"
    [] cls = "space" -> c \in Whitespace

\* a literal of the pattern matches text at position i, ignoring case
LitAt(text, i, lit) ==
  /\ i >= 1
  /\ i + Len(lit) - 1 <= Len(text)
  /\ \A k \in 1..Len(lit) : LowerChar(text[i + k - 1]) = LowerChar(lit[k])

\* position just after the maximal run of class characters starting at i
RunEnd(text, i, cls) ==
  CHOOSE j \in i..(Len(text) + 1) :
    /\ \A k \in i..(j - 1) : InClass(cls, text[k])
    /\ j = Len(text) + 1 \/ ~InClass(cls, text[j])

\* pattern elements: a literal, or a repeated character class with its
\* least number of repetitions, captured or not
Lit(chars) == [lit |-> chars, cls |-> "", min |-> 0, cap |-> FALSE]

Rep(cls, min, cap) == [lit |-> <<>>, cls |-> cls, min |-> min, cap |-> cap]

\* /Update state \(0x[\da-f]+\) (\w+), progress: ([\d.]+) \((\d+) \/ (\d+)\)/i
UpdatePattern ==
  << Lit(<<"U", "p", "d", "a", "t", "e", " ", "s", "t", "a", "t", "e", " ", "(", "0", "x">>),
     Rep("hex", 1, FALSE),
     Lit(<<")", " ">>),
     Rep("word", 1, TRUE),
     Lit(<<",", " ", "p", "r", "o", "g", "r", "e", "s", "s", ":", " ">>),
     Rep("digitOrDot", 1, TRUE),
     Lit(<<" ", "(">>),
     Rep("digit", 1, TRUE),
     Lit(<<" ", "/", " ">>),
     Rep("digit", 1, TRUE),
     Lit(<<")">>) >>

\* /Validating[^\d]*(\d+)%/i
ValidatePattern ==
  << Lit(<<"V", "a", "l", "i", "d", "a", "t", "i", "n", "g">>),
     Rep("nonDigit", 0, FALSE),
     Rep("digit", 1, TRUE),
     Lit(<<"%">>) >>

\* /\[(#+\s*)\]\s*(\d+)%/i
PercentPattern ==
  << Lit(<<"[">>),
     Rep("hash", 1, FALSE),
     Rep("space", 0, FALSE),
     Lit(<<"]">>),
     Rep("space", 0, FALSE),
     Rep("digit", 1, TRUE),
     Lit(<<"%">>) >>

NoMatch == [ok |-> FALSE, caps |-> <<>>]

\* match of the pattern elements against text from position pos: whether
\* it succeeds, and the captured texts in order
RECURSIVE MatchFrom(_, _, _)
MatchFrom(pattern, text, pos) ==
  IF pattern = <<>> THEN [ok |-> TRUE, caps |-> <<>>]
  ELSE IF Head(pattern).cls = ""
    THEN IF LitAt(text, pos, Head(pattern).lit)
         THEN MatchFrom(Tail(pattern), text, pos + Len(Head(pattern).lit))
         ELSE NoMatch
  ELSE IF pos > Len(text) + 1 THEN NoMatch
  ELSE LET end == RunEnd(text, pos, Head(pattern).cls)
           rest == MatchFrom(Tail(pattern), text, end)
       IN IF end - pos < Head(pattern).min \/ ~rest.ok THEN NoMatch
          ELSE [ok |-> TRUE,
                caps |-> (IF Head(pattern).cap
                            THEN <<SubSeq(text, pos, end - 1)>>
                            ELSE <<>>) \o rest.caps]

\* String.prototype.match: the captures of the leftmost match, no match
\* when the pattern matches nowhere
Match(text, pattern) ==
  LET hits == {i \in 1..Len(text) : MatchFrom(pattern, text, i).ok}
  IN IF hits = {} THEN NoMatch
     ELSE MatchFrom(pattern, text, CHOOSE i \in hits : \A j \in hits : i <= j)

\* variant: the fraction is dropped instead of rounded
RoundParseFloat_Truncate(chars) ==
  LET dot == DotIndex(chars)
      ip == IF dot = 0 THEN chars ELSE SubSeq(chars, 1, dot - 1)
  IN IF ip = <<>> THEN NaN ELSE Num(DigitsValue(ip))

\* Math.round(parseFloat(s)) for s matching [\d.]+ : parseFloat reads the
\* longest prefix digits [ "." digits ], NaN when that prefix has no digit;
\* rounding is half-up on the first fractional digit.
RoundParseFloat(chars) ==
  LET dot == DotIndex(chars)
      ip == IF dot = 0 THEN chars ELSE SubSeq(chars, 1, dot - 1)
      rest == IF dot = 0 THEN <<>> ELSE SubSeq(chars, dot + 1, Len(chars))
      fp == IF rest = <<>> THEN <<>>
            ELSE SubSeq(rest, 1, RunEnd(rest, 1, "digit") - 1)
  IN IF ip = <<>> /\ fp = <<>> THEN NaN
     ELSE Num(DigitsValue(ip)
              + (IF fp # <<>> /\ DigitVal(fp[1]) >= 5 THEN 1 ELSE 0))

NullProgress ==
  [isNull |-> TRUE, phase |-> <<>>, percent |-> Undef,
   bytesDownloaded |-> 0, totalBytes |-> 0]

Progress(phase, percent, bytesDownloaded, totalBytes) ==
  [isNull |-> FALSE, phase |-> phase, percent |-> percent,
   bytesDownloaded |-> bytesDownloaded, totalBytes |-> totalBytes]

\* variant: the validation format is tried before the update-state format
parseProgress_ValidationFirst(text) ==
  LET updateMatch == Match(text, UpdatePattern)
      validateMatch == Match(text, ValidatePattern)
      percentMatch == Match(text, PercentPattern)
  IN IF validateMatch.ok THEN
       Progress(<<"v", "a", "l", "i", "d", "a", "t", "i", "n", "g">>,
                Num(DigitsValue(validateMatch.caps[1])), 0, 0)
     ELSE IF updateMatch.ok THEN
       Progress(ToLowerCase(updateMatch.caps[1]),
                RoundParseFloat(updateMatch.caps[2]),
                DigitsValue(updateMatch.caps[3]),
                DigitsValue(updateMatch.caps[4]))
     ELSE IF percentMatch.ok THEN
       Progress(<<"d", "o", "w", "n", "l", "o", "a", "d", "i", "n", "g">>,
                Num(DigitsValue(percentMatch.caps[1])), 0, 0)
     ELSE NullProgress

parseProgress(text) ==
  LET updateMatch == Match(text, UpdatePattern)
      validateMatch == Match(text, ValidatePattern)
      percentMatch == Match(text, PercentPattern)
  IN IF updateMatch.ok THEN
       Progress(ToLowerCase(updateMatch.caps[1]),
                RoundParseFloat(updateMatch.caps[2]),
                DigitsValue(updateMatch.caps[3]),
                DigitsValue(updateMatch.caps[4]))
     ELSE IF validateMatch.ok THEN
       Progress(<<"v", "a", "l", "i", "d", "a", "t", "i", "n", "g">>,
                Num(DigitsValue(validateMatch.caps[1])), 0, 0)
     ELSE IF percentMatch.ok THEN
       Progress(<<"d", "o", "w", "n", "l", "o", "a", "d", "i", "n", "g">>,
                Num(DigitsValue(percentMatch.caps[1])), 0, 0)
     ELSE NullProgress

(***************************************************************************)
(* The runner: install() on its callback and promise surfaces, and         *)
(* installWithProgress() on the event-emitter surface.                     *)
(***************************************************************************)
VARIABLES
  pc,            \* "idle", "scheduled", "running", "invalid", "done", "crashed"
  surface,       \* "none", "callback", "promise", "emitter"
  steamCmdPath,  \* the executable path argument
  options,       \* the options argument, as the caller passed it
  callerTurn,    \* the caller's synchronous turn is still running
  attached,      \* listeners are attached to the emitter
  attachedInTurn,\* ... and were attached in the turn of the call
  proc,          \* child process: "none", "alive", "failing", "errored", "closed"
  stdoutData,    \* accumulator of install()
  stderrData,    \* accumulator of install()
  stdoutChunks,  \* history: chunks the child wrote to stdout
  stderrChunks,  \* history: chunks the child wrote to stderr
  closeCode,     \* history: the code the 'close' event carried
  trace,         \* history: everything delivered to sinks, in order
  promise,       \* [state, error] of the promise install() returned
  optionsArg,    \* options record handed to the two exported pure functions
  thrownCode,    \* "uncalled", or what validateOptions(optionsArg) threw
  tokens,        \* <<>>, or what createArguments(optionsArg) returned
  lineArg,       \* the lines the text handed to parseProgress is made of
  textArg,       \* the text handed to parseProgress
  parsed,        \* <<>>, or <<what parseProgress(textArg) returned>>
  request,       \* [op, options, callback] of the steamcmd operation called
  stage,         \* "idle", "scheduled", "checking", "downloading", "ready", "settled"
  binary,        \* the executable: "present", "absent", "unsupported"
  ensure,        \* history of ensureInstalled: [installed, calls, download]
  outcome,       \* history: how the operation ended, one entry per signal
  pair,          \* two runs of install() at the same time: [runs, log]
  ensuring,      \* two ensureInstalled() at the same time: [ops, downloads]
  dl             \* one call of download(callback): [stage, calls, progress]

\* state of a run of install() / installWithProgress()
runVars ==
  <<pc, surface, steamCmdPath, options, callerTurn, attached, attachedInTurn,
    proc, stdoutData, stderrData, stdoutChunks, stderrChunks, closeCode,
    trace, promise>>

\* state of the direct calls of validateOptions, createArguments and
\* parseProgress
pureVars == <<optionsArg, thrownCode, tokens, lineArg, textArg, parsed>>

\* state of a steamcmd operation around the run
steamVars == <<request, stage, binary, ensure, outcome>>

\* state of the operations observed on their own: two concurrent runs, two
\* concurrent ensureInstalled, one download
concurrentVars == <<pair, ensuring, dl>>

\* what a steamcmd operation leaves alone apart from the run
restVars == <<pureVars, concurrentVars>>

\* everything a run of install() leaves alone
callVars == <<pureVars, steamVars, concurrentVars>>

vars == <<runVars, callVars>>

\* an InstallError (message omitted); NoError stands for null
InstallError(code, exitCode) ==
  [code |-> code, exitCode |-> exitCode, stdout |-> Undef, stderr |-> Undef]

NoError == InstallError("", Undef)

\* one entry of the trace
Ev(k, progress, text, tag, err, args, heard) ==
  [k |-> k, progress |-> progress, text |-> text, tag |-> tag, err |-> err,
   args |-> args, heard |-> heard]

SpawnEv(args) == Ev("spawn", NullProgress, <<>>, "", NoError, args, TRUE)

\* {...options, onProgress, onOutput} of installWithProgress: spreading a
\* non-object yields an object carrying only the two sinks
SpreadWithSinks(opts) ==
  [opts EXCEPT !.kind = "object", !.onProgress = Fn, !.onOutput = Fn]

\* the options install() works on
EffOptions(surf, opts) ==
  IF surf = "emitter" THEN SpreadWithSinks(opts) ELSE opts

\* an emit reaches a listener only when one is attached
Heard(surf, att) == surf # "emitter" \/ att

\* onProgress(p): the caller's sink when it is a function, else a no-op
OnProgress(surf, opts, att, p) ==
  IF EffOptions(surf, opts).onProgress.t = "function"
  THEN <<Ev("progress", p, <<>>, "", NoError, <<>>, Heard(surf, att))>>
  ELSE <<>>

\* onOutput(text, tag) when it is a function, else console.log(fallback)
OnOutput(surf, opts, att, text, tag, fallback) ==
  IF EffOptions(surf, opts).onOutput.t = "function"
  THEN <<Ev("output", NullProgress, text, tag, NoError, <<>>, Heard(surf, att))>>
  ELSE <<Ev("console", NullProgress, fallback, "", NoError, <<>>, TRUE)>>

\* callback(err): the caller's callback, the promise adapter's
\* reject/resolve, or the emitter's 'error'/'complete'
Callback(surf, att, err) ==
  <<Ev("callback", NullProgress, <<>>, "", err, <<>>, TRUE)>>
  \o (IF surf = "emitter"
        THEN <<Ev(IF err # NoError THEN "error" ELSE "complete",
                  NullProgress, <<>>, "", err, <<>>, att)>>
        ELSE <<>>)

\* a promise settles once: later resolve/reject calls change nothing
Settle(p, surf, err) ==
  IF surf = "promise" /\ p.state = "pending"
  THEN [state |-> IF err # NoError THEN "rejected" ELSE "resolved",
        error |-> err]
  ELSE p

\* emit('error') without a listener throws out of the running handler
Throws(surf, att, err) == surf = "emitter" /\ err # NoError /\ ~att

StartingProgress ==
  Progress(<<"s", "t", "a", "r", "t", "i", "n", "g">>, Num(0), 0, 0)

CompleteProgress ==
  Progress(<<"c", "o", "m", "p", "l", "e", "t", "e">>, Num(100), 0, 0)

(***************************************************************************)
(* Inputs.                                                                 *)
(***************************************************************************)
Chars740 == <<"7", "4", "0">>

OptionsSet ==
  { NoOptions("null"),
    NoOptions("string"),
    EmptyOptions,
    [EmptyOptions EXCEPT !.applicationId = Num(740)],
    [EmptyOptions EXCEPT !.applicationId = Str(Chars740),
                         !.workshopId = Num(5),
                         !.username = Str(<<"u">>),
                         !.password = Str(<<"p">>),
                         !.steamGuardCode = Str(<<"g">>),
                         !.path = Str(<<"d">>),
                         !.platform = Str(VALID_PLATFORMS[3])],
    [EmptyOptions EXCEPT !.applicationId = Num(0)],
    [EmptyOptions EXCEPT !.applicationId = Frac(740, <<"5">>)],
    [EmptyOptions EXCEPT !.workshopId = Num(5)],
    [EmptyOptions EXCEPT !.workshopId = Num(0)],
    [EmptyOptions EXCEPT !.applicationId = Num(740),
                         !.platform = Str(<<"x">>)],
    [EmptyOptions EXCEPT !.applicationId = Num(740),
                         !.password = Str(<<"p">>)],
    [EmptyOptions EXCEPT !.applicationId = Num(740),
                         !.steamGuardCode = Str(<<"g">>)] }

SinkChoices == {Undef, Fn}

PathSet == {Str(<<"s">>), Str(<<>>), Undef, Num(5)}

\* a chunk that carries two progress lines
TwoLineChunk ==
  <<"[", "#", "#", " ", "]", " ", "2", "0", "%", "\n", "V", "a", "l", "i", "d", "a", "t", "i", "n", "g", ":", " ", "9", "0", "%", "\n">>

StdoutTexts ==
  { <<"U", "p", "d", "a", "t", "e", " ", "s", "t", "a", "t", "e", " ", "(", "0", "x", "6", "1", ")", " ", "d", "o", "w", "n", "l", "o", "a", "d", "i", "n", "g", ",", " ", "p", "r", "o", "g", "r", "e", "s", "s", ":", " ", "4", "5", ".", "2", "3", " ", "(", "1", "2", " ", "/", " ", "2", "7", ")", "\n">>,
    <<"V", "a", "l", "i", "d", "a", "t", "i", "n", "g", ":", " ", "4", "5", "%">>,
    <<"L", "o", "a", "d", "i", "n", "g", "\n">>,
    <<"V", "a", "l", "i", "d", "a", "t", "i", "n", "g", ":", " ", "1", "5", "0", "%">>,
    <<"U", "p", "d", "a", "t", "e", " ", "s", "t", "a", "t", "e", " ", "(", "0", "x", "6", "1", ")", " ", "d", "o", "w", "n", "l", "o", "a", "d", "i", "n", "g", ",", " ", "p", "r", "o", "g", "r", "e", "s", "s", ":", " ", ".", " ", "(", "1", " ", "/", " ", "2", ")", "\n">>,
    TwoLineChunk }

StderrTexts ==
  { <<"E", "R", "R", "\n">>,
    <<"[", "#", "#", " ", "]", " ", "5", "0", "%">> }

\* codes a 'close' can carry for a process that was spawned: its exit
\* status, or null when a signal ended it
CloseCodes == {Num(0), Num(1), Num(2), Null}

\* a failed spawn closes with the negative errno (ENOENT, EACCES)
SpawnErrnos == {Num(-2), Num(-13)}

(***************************************************************************)
(* Operations.                                                             *)
(***************************************************************************)
\* no run has been started
RunInit ==
  /\ pc = "idle"
  /\ surface = "none"
  /\ steamCmdPath = Undef
  /\ options = NoOptions("undefined")
  /\ callerTurn = FALSE
  /\ attached = FALSE
  /\ attachedInTurn = FALSE
  /\ proc = "none"
  /\ stdoutData = <<>>
  /\ stderrData = <<>>
  /\ stdoutChunks = <<>>
  /\ stderrChunks = <<>>
  /\ closeCode = Undef
  /\ trace = <<>>
  /\ promise = [state |-> "none", error |-> NoError]

\* no text has been handed to parseProgress
NoParse ==
  /\ lineArg = <<>>
  /\ textArg = <<>>
  /\ parsed = <<>>

\* no two calls of install() are in progress together
NoPair == pair = [runs |-> <<>>, log |-> <<>>]

\* no two operations are ensuring the executable together
NoEnsuring ==
  ensuring = [ops |-> <<>>, downloads |-> 0, extracting |-> {},
              exe |-> "present"]

\* download() has not been called on its own
NoDownload ==
  dl = [stage |-> "uncalled", platform |-> "", totalBytes |-> 0,
        bytesDownloaded |-> 0, chunks |-> 0, log |-> <<>>]

NoConcurrency ==
  /\ NoPair
  /\ NoEnsuring
  /\ NoDownload

\* no steamcmd operation has been called; the executable is in place
NoRequest ==
  /\ request = [op |-> "none", options |-> NoOptions("undefined"),
                callback |-> "none"]
  /\ stage = "idle"
  /\ binary = "present"
  /\ ensure = [installed |-> "unknown", calls |-> 0, download |-> "none"]
  /\ outcome = <<>>

Init ==
  /\ RunInit
  /\ optionsArg = EmptyOptions
  /\ thrownCode = "uncalled"
  /\ tokens = <<>>
  /\ NoParse
  /\ NoRequest
  /\ NoConcurrency

\* variant: the executable path is not validated
ValidationCode_NoPathCheck(path, opts) == validateOptions(opts)

\* variant: the executable path is validated before the options
ValidationCode_PathFirst(path, opts) ==
  IF ~Truthy(path) \/ TypeOf(path) # "string" THEN "INVALID_PATH"
  ELSE validateOptions(opts)

\* the error code the two validations of install() end with, "" when the
\* run goes on to spawn
ValidationCode(path, opts) ==
  IF validateOptions(opts) # "" THEN validateOptions(opts)
  ELSE IF ~Truthy(path) \/ TypeOf(path) # "string" THEN "INVALID_PATH"
  ELSE ""

\* variant: the 'starting' progress delivered before execFile is called
StartEvents_StartingFirst(surf, opts, att) ==
  OnProgress(surf, opts, att, StartingProgress)
  \o <<SpawnEv(createArguments(EffOptions(surf, opts)))>>

\* execFile(...) followed by onProgress(starting), in the order of the code
StartEvents(surf, opts, att) ==
  <<SpawnEv(createArguments(EffOptions(surf, opts)))>>
  \o OnProgress(surf, opts, att, StartingProgress)

\* body of install(path, options, callback) with a function callback
InstallBody(surf, path, opts, att, prom) ==
  LET eff == EffOptions(surf, opts)
      code == ValidationCode(path, eff)
      err == InstallError(code, Undef)
  IN IF code # ""
     THEN /\ trace' = trace \o Callback(surf, att, err)
          /\ promise' = Settle(prom, surf, err)
          /\ pc' = IF Throws(surf, att, err) THEN "crashed" ELSE "invalid"
          /\ proc' = proc
     ELSE /\ \E ok \in BOOLEAN : proc' = IF ok THEN "alive" ELSE "failing"
          /\ trace' = trace \o StartEvents(surf, opts, att)
          /\ promise' = prom
          /\ pc' = "running"

\* install(path, options, callback)
InstallCallback(path, opts) ==
  /\ pc = "idle"
  /\ surface' = "callback"
  /\ steamCmdPath' = path
  /\ options' = opts
  /\ callerTurn' = TRUE
  /\ InstallBody("callback", path, opts, attached, promise)
  /\ UNCHANGED callVars
  /\ UNCHANGED <<attached, attachedInTurn, stdoutData, stderrData,
                 stdoutChunks, stderrChunks, closeCode>>

\* install(path, options): the promise adapter runs the body at once
InstallPromise(path, opts) ==
  /\ pc = "idle"
  /\ surface' = "promise"
  /\ steamCmdPath' = path
  /\ options' = opts
  /\ callerTurn' = TRUE
  /\ InstallBody("promise", path, opts, attached,
                 [state |-> "pending", error |-> NoError])
  /\ UNCHANGED callVars
  /\ UNCHANGED <<attached, attachedInTurn, stdoutData, stderrData,
                 stdoutChunks, stderrChunks, closeCode>>

\* installWithProgress(path, options): creates the emitter, defers the run
InstallWithProgress(path, opts) ==
  /\ pc = "idle"
  /\ surface' = "emitter"
  /\ steamCmdPath' = path
  /\ options' = opts
  /\ callerTurn' = TRUE
  /\ pc' = "scheduled"
  /\ UNCHANGED callVars
  /\ UNCHANGED <<attached, attachedInTurn, proc, stdoutData, stderrData,
                 stdoutChunks, stderrChunks, closeCode, trace, promise>>

\* the caller attaches its listeners to the returned emitter
Attach ==
  /\ surface = "emitter"
  /\ ~attached
  /\ pc # "crashed"
  /\ attached' = TRUE
  /\ attachedInTurn' = callerTurn
  /\ UNCHANGED callVars
  /\ UNCHANGED <<pc, surface, steamCmdPath, options, callerTurn, proc,
                 stdoutData, stderrData, stdoutChunks, stderrChunks,
                 closeCode, trace, promise>>

\* the caller's synchronous code returns to the event loop
EndTurn ==
  /\ callerTurn
  /\ callerTurn' = FALSE
  /\ UNCHANGED callVars
  /\ UNCHANGED <<pc, surface, steamCmdPath, options, attached,
                 attachedInTurn, proc, stdoutData, stderrData, stdoutChunks,
                 stderrChunks, closeCode, trace, promise>>

\* variant: the run starts inside the installWithProgress call
NextTick_Sync ==
  /\ pc = "scheduled"
  /\ InstallBody("emitter", steamCmdPath, options, attached, promise)
  /\ UNCHANGED callVars
  /\ UNCHANGED <<surface, steamCmdPath, options, callerTurn, attached,
                 attachedInTurn, stdoutData, stderrData, stdoutChunks,
                 stderrChunks, closeCode>>

\* the process.nextTick callback of installWithProgress
NextTick ==
  /\ pc = "scheduled"
  /\ ~callerTurn
  /\ InstallBody("emitter", steamCmdPath, options, attached, promise)
  /\ UNCHANGED callVars
  /\ UNCHANGED <<surface, steamCmdPath, options, callerTurn, attached,
                 attachedInTurn, stdoutData, stderrData, stdoutChunks,
                 stderrChunks, closeCode>>

\* variant: `acc = str`
Accumulate_Overwrite(acc, str) == str

\* `acc += str` of the two data handlers
Accumulate(acc, str) == acc \o str

\* variant: a chunk that parses as progress is not forwarded as output
StdoutData_ProgressInsteadOfOutput(chunk) ==
  /\ pc = "running"
  /\ proc = "alive"
  /\ ~callerTurn
  /\ Len(stdoutChunks) + Len(stderrChunks) < MaxChunks
  /\ stdoutData' = Accumulate(stdoutData, chunk)
  /\ stdoutChunks' = Append(stdoutChunks, chunk)
  /\ LET progress == parseProgress(chunk)
     IN trace' = trace
          \o (IF progress.isNull
              THEN OnOutput(surface, options, attached, chunk, "stdout",
                            <<"s", "t", "d", "o", "u", "t", ":", " ">> \o chunk)
              ELSE OnProgress(surface, options, attached, progress))
  /\ UNCHANGED callVars
  /\ UNCHANGED <<pc, surface, steamCmdPath, options, callerTurn, attached,
                 attachedInTurn, proc, stderrData, stderrChunks, closeCode,
                 promise>>

\* the lines of a chunk, each with its line feed
RECURSIVE LinesIn(_)
LinesIn(chunk) ==
  IF chunk = <<>> THEN <<>>
  ELSE LET ends == {i \in 1..Len(chunk) : chunk[i] = "\n"} \cup {Len(chunk)}
           end == CHOOSE i \in ends : \A j \in ends : i <= j
       IN <<SubSeq(chunk, 1, end)>>
            \o LinesIn(SubSeq(chunk, end + 1, Len(chunk)))

\* variant: every line of a chunk is parsed for progress on its own
StdoutData_PerLine(chunk) ==
  /\ pc = "running"
  /\ proc = "alive"
  /\ ~callerTurn
  /\ Len(stdoutChunks) + Len(stderrChunks) < MaxChunks
  /\ stdoutData' = Accumulate(stdoutData, chunk)
  /\ stdoutChunks' = Append(stdoutChunks, chunk)
  /\ LET lines == LinesIn(chunk)
         first == parseProgress(lines[1])
         second == IF Len(lines) > 1 THEN parseProgress(lines[2])
                   ELSE NullProgress
     IN trace' = trace
          \o OnOutput(surface, options, attached, chunk, "stdout",
                      <<"s", "t", "d", "o", "u", "t", ":", " ">> \o chunk)
          \o (IF first.isNull THEN <<>>
              ELSE OnProgress(surface, options, attached, first))
          \o (IF second.isNull THEN <<>>
              ELSE OnProgress(surface, options, attached, second))
  /\ UNCHANGED callVars
  /\ UNCHANGED <<pc, surface, steamCmdPath, options, callerTurn, attached,
                 attachedInTurn, proc, stderrData, stderrChunks, closeCode,
                 promise>>

\* proc.stdout 'data'
StdoutData(chunk) ==
  /\ pc = "running"
  /\ proc = "alive"
  /\ ~callerTurn
  /\ Len(stdoutChunks) + Len(stderrChunks) < MaxChunks
  /\ stdoutData' = Accumulate(stdoutData, chunk)
  /\ stdoutChunks' = Append(stdoutChunks, chunk)
  /\ LET progress == parseProgress(chunk)
     IN trace' = trace
          \o OnOutput(surface, options, attached, chunk, "stdout",
                      <<"s", "t", "d", "o", "u", "t", ":", " ">> \o chunk)
          \o (IF progress.isNull THEN <<>>
              ELSE OnProgress(surface, options, attached, progress))
  /\ UNCHANGED callVars
  /\ UNCHANGED <<pc, surface, steamCmdPath, options, callerTurn, attached,
                 attachedInTurn, proc, stderrData, stderrChunks, closeCode,
                 promise>>

\* variant: stderr chunks are parsed for progress like stdout chunks
StderrData_Parsed(chunk) ==
  /\ pc = "running"
  /\ proc = "alive"
  /\ ~callerTurn
  /\ Len(stdoutChunks) + Len(stderrChunks) < MaxChunks
  /\ stderrData' = Accumulate(stderrData, chunk)
  /\ stderrChunks' = Append(stderrChunks, chunk)
  /\ LET progress == parseProgress(chunk)
     IN trace' = trace
          \o OnOutput(surface, options, attached, chunk, "stderr",
                      <<"s", "t", "d", "e", "r", "r", ":", " ">> \o chunk)
          \o (IF progress.isNull THEN <<>>
              ELSE OnProgress(surface, options, attached, progress))
  /\ UNCHANGED callVars
  /\ UNCHANGED <<pc, surface, steamCmdPath, options, callerTurn, attached,
                 attachedInTurn, proc, stdoutData, stdoutChunks, closeCode,
                 promise>>

\* proc.stderr 'data'
StderrData(chunk) ==
  /\ pc = "running"
  /\ proc = "alive"
  /\ ~callerTurn
  /\ Len(stdoutChunks) + Len(stderrChunks) < MaxChunks
  /\ stderrData' = Accumulate(stderrData, chunk)
  /\ stderrChunks' = Append(stderrChunks, chunk)
  /\ trace' = trace
       \o OnOutput(surface, options, attached, chunk, "stderr",
                   <<"s", "t", "d", "e", "r", "r", ":", " ">> \o chunk)
  /\ UNCHANGED callVars
  /\ UNCHANGED <<pc, surface, steamCmdPath, options, callerTurn, attached,
                 attachedInTurn, proc, stdoutData, stdoutChunks, closeCode,
                 promise>>

\* proc 'error': the child could not be spawned
ProcError ==
  /\ pc = "running"
  /\ proc = "failing"
  /\ ~callerTurn
  /\ LET err == InstallError("SPAWN_ERROR", Undef)
     IN /\ trace' = trace \o Callback(surface, attached, err)
        /\ promise' = Settle(promise, surface, err)
        /\ pc' = IF Throws(surface, attached, err) THEN "crashed" ELSE pc
  /\ proc' = "errored"
  /\ UNCHANGED callVars
  /\ UNCHANGED <<surface, steamCmdPath, options, callerTurn, attached,
                 attachedInTurn, stdoutData, stderrData, stdoutChunks,
                 stderrChunks, closeCode>>

\* `code && code > 0` of the 'close' handler
ExitFailed(code) == Truthy(code) /\ code.n > 0

\* the error the 'close' handler passes to the callback (NoError: null)
CloseError(code, out, errOut) ==
  IF ExitFailed(code)
  THEN [InstallError("EXIT_ERROR", code)
          EXCEPT !.stdout = Str(out), !.stderr = Str(errOut)]
  ELSE NoError

\* variant: success signalled before the 'complete' progress
CloseEvents_CallbackFirst(surf, opts, att, code, out, errOut) ==
  OnOutput(surf, opts, att,
           <<"P", "r", "o", "c", "e", "s", "s", " ", "e", "x", "i", "t", "e", "d", " ", "w", "i", "t", "h", " ", "c", "o", "d", "e", " ">>
             \o ToText(code) \o <<"\n">>,
           "stdout",
           <<"c", "h", "i", "l", "d", " ", "p", "r", "o", "c", "e", "s", "s", " ", "e", "x", "i", "t", "e", "d", " ", "w", "i", "t", "h", " ", "c", "o", "d", "e", " ">>
             \o ToText(code))
  \o (IF ExitFailed(code)
        THEN Callback(surf, att, CloseError(code, out, errOut))
        ELSE Callback(surf, att, NoError)
               \o OnProgress(surf, opts, att, CompleteProgress))

\* what the 'close' handler delivers for `code`
CloseEvents(surf, opts, att, code, out, errOut) ==
  OnOutput(surf, opts, att,
           <<"P", "r", "o", "c", "e", "s", "s", " ", "e", "x", "i", "t", "e", "d", " ", "w", "i", "t", "h", " ", "c", "o", "d", "e", " ">>
             \o ToText(code) \o <<"\n">>,
           "stdout",
           <<"c", "h", "i", "l", "d", " ", "p", "r", "o", "c", "e", "s", "s", " ", "e", "x", "i", "t", "e", "d", " ", "w", "i", "t", "h", " ", "c", "o", "d", "e", " ">>
             \o ToText(code))
  \o (IF ExitFailed(code)
        THEN Callback(surf, att, CloseError(code, out, errOut))
        ELSE OnProgress(surf, opts, att, CompleteProgress)
               \o Callback(surf, att, NoError))

\* proc 'close'
ProcClose(code) ==
  /\ pc = "running"
  /\ \/ proc = "alive" /\ code \in CloseCodes
     \/ proc = "errored" /\ code \in SpawnErrnos
  /\ ~callerTurn
  /\ trace' = trace \o CloseEvents(surface, options, attached, code,
                                   stdoutData, stderrData)
  /\ promise' = Settle(promise, surface,
                       CloseError(code, stdoutData, stderrData))
  /\ pc' = IF Throws(surface, attached,
                     CloseError(code, stdoutData, stderrData))
           THEN "crashed" ELSE "done"
  /\ proc' = "closed"
  /\ closeCode' = code
  /\ UNCHANGED callVars
  /\ UNCHANGED <<surface, steamCmdPath, options, callerTurn, attached,
                 attachedInTurn, stdoutData, stderrData, stdoutChunks,
                 stderrChunks>>

Next ==
  \/ \E path \in PathSet, opts \in OptionsSet, p \in SinkChoices,
        o \in SinkChoices :
       InstallCallback(path, [opts EXCEPT !.onProgress = p, !.onOutput = o])
  \/ \E path \in PathSet, opts \in OptionsSet, p \in SinkChoices,
        o \in SinkChoices :
       InstallPromise(path, [opts EXCEPT !.onProgress = p, !.onOutput = o])
  \/ \E path \in PathSet, opts \in OptionsSet :
       InstallWithProgress(path, opts)
  \/ Attach
  \/ EndTurn
  \/ NextTick
  \/ \E chunk \in StdoutTexts : StdoutData(chunk)
  \/ \E chunk \in StderrTexts : StderrData(chunk)
  \/ ProcError
  \/ \E code \in CloseCodes \cup SpawnErrnos : ProcClose(code)

Spec == Init /\ [][Next]_vars

(***************************************************************************)
(* Direct calls of the exported pure functions validateOptions and         *)
(* createArguments, on an options object whose fields are drawn from       *)
(* well-formed and ill-formed values alike.                                *)
(***************************************************************************)
ApplicationIds ==
  { Undef, Num(740), Str(Chars740), Num(0), Num(-1), Frac(740, <<"5">>),
    Str(<<"a", "b", "c">>), Str(<<>>), NaN, Inf(1) }

WorkshopIds ==
  { Undef, Num(12), Str(<<"1", "2">>), Num(0), Frac(1, <<"5">>),
    Str(<<"a", "b", "c">>) }

Usernames == {Undef, Str(<<"u">>), Str(<<>>)}

Passwords == {Undef, Str(<<"p">>), Str(<<>>)}

SteamGuardCodes == {Undef, Str(<<"g">>), Str(<<>>)}

InstallPaths == {Undef, Str(<<"d">>)}

Platforms == {Undef, Str(VALID_PLATFORMS[1]), Str(<<"x">>), Str(<<>>)}

OptionsArgs ==
  [kind : {"object"}, applicationId : ApplicationIds,
   workshopId : WorkshopIds, path : InstallPaths, username : Usernames,
   password : Passwords, steamGuardCode : SteamGuardCodes,
   platform : Platforms, onProgress : {Undef}, onOutput : {Undef}]

OptionsInit ==
  /\ RunInit
  /\ optionsArg \in OptionsArgs
  /\ thrownCode = "uncalled"
  /\ tokens = <<>>
  /\ NoParse
  /\ NoRequest
  /\ NoConcurrency

\* validateOptions(optionsArg)
CallValidateOptions ==
  /\ thrownCode = "uncalled"
  /\ thrownCode' = validateOptions(optionsArg)
  /\ UNCHANGED <<optionsArg, tokens, lineArg, textArg, parsed>>
  /\ UNCHANGED <<steamVars, concurrentVars>>
  /\ UNCHANGED runVars

\* createArguments(optionsArg)
CallCreateArguments ==
  /\ tokens = <<>>
  /\ tokens' = createArguments(optionsArg)
  /\ UNCHANGED <<optionsArg, thrownCode, lineArg, textArg, parsed>>
  /\ UNCHANGED <<steamVars, concurrentVars>>
  /\ UNCHANGED runVars

OptionsNext == CallValidateOptions \/ CallCreateArguments

OptionsSpec == OptionsInit /\ [][OptionsNext]_vars

(***************************************************************************)
(* Direct calls of the exported pure function parseProgress, on texts made *)
(* of lines in the three formats SteamCMD prints and of lines in none of   *)
(* them.                                                                   *)
(***************************************************************************)
\* most lines of one text
MaxLines == 2

\* width of a progress bar between its brackets
BarWidth == 8

Line(shape, word, percent, bytes, hashes, text) ==
  [shape |-> shape, word |-> word, percent |-> percent, bytes |-> bytes,
   hashes |-> hashes, text |-> text]

\* phase words as SteamCMD writes them, with their lower-case form and the
\* state code printed before them
PhaseWords ==
  { [written |-> <<"d", "o", "w", "n", "l", "o", "a", "d", "i", "n", "g">>, lower |-> <<"d", "o", "w", "n", "l", "o", "a", "d", "i", "n", "g">>, hex |-> <<"6", "1">>],
    [written |-> <<"V", "e", "r", "i", "f", "y", "i", "n", "g">>, lower |-> <<"v", "e", "r", "i", "f", "y", "i", "n", "g">>, hex |-> <<"A", "B">>] }

\* percentages <<whole, hundredths>>
Percents == {<<45, 23>>, <<12, 50>>, <<0, 0>>, <<100, 0>>, <<99, 49>>}

\* <<bytes downloaded, total bytes>>
ByteCounts == {<<1234567890, 2000000000>>, <<0, 1000000>>}

UpdateLines ==
  { Line("update", w, p, b, 0, <<>>) :
      w \in PhaseWords, p \in Percents, b \in ByteCounts }

ValidatingLines ==
  { Line("validating", <<>>, <<n, 0>>, <<0, 0>>, 0, <<":", " ">>) : n \in {0, 45} }
    \cup { Line("validating", <<>>, <<100, 0>>, <<0, 0>>, 0, <<" ", "S", "t", "e", "a", "m", " ", "c", "a", "c", "h", "e", " ", "f", "i", "l", "e", "s", ".", ".", ".", " ">>),
           Line("validatingBar", <<>>, <<50, 0>>, <<0, 0>>, 4, <<" ">>) }

\* a bar without any # is not a progress bar
BarLines ==
  { Line("bar", <<>>, <<50, 0>>, <<0, 0>>, 4, <<>>),
    Line("bar", <<>>, <<100, 0>>, <<0, 0>>, 8, <<>>),
    Line("bar", <<>>, <<0, 0>>, <<0, 0>>, 0, <<>>) }

OtherLines ==
  { Line("other", <<>>, <<0, 0>>, <<0, 0>>, 0, text) :
      text \in {<<"L", "o", "a", "d", "i", "n", "g", " ", "S", "t", "e", "a", "m", " ", "A", "P", "I", ".", ".", ".">>, <<>>, <<" ", " ", " ">>} }

Lines == UpdateLines \cup ValidatingLines \cup BarLines \cup OtherLines

BarText(line) ==
  <<"[">> \o [i \in 1..BarWidth |-> IF i <= line.hashes THEN "#" ELSE " "]
    \o <<"]", " ">> \o NatToChars(line.percent[1]) \o <<"%">>

\* the text of one line
LineText(line) ==
  CASE line.shape = "update" ->
         <<"U", "p", "d", "a", "t", "e", " ", "s", "t", "a", "t", "e", " ", "(", "0", "x">> \o line.word.hex \o <<")", " ">> \o line.word.written
           \o <<",", " ", "p", "r", "o", "g", "r", "e", "s", "s", ":", " ">> \o NatToChars(line.percent[1]) \o <<".">>
           \o <<DigitChar(line.percent[2] \div 10),
                DigitChar(line.percent[2] % 10)>>
           \o <<" ", "(">> \o NatToChars(line.bytes[1]) \o <<" ", "/", " ">>
           \o NatToChars(line.bytes[2]) \o <<")">>
    [] line.shape = "validating" ->
         <<"V", "a", "l", "i", "d", "a", "t", "i", "n", "g">> \o line.text \o NatToChars(line.percent[1]) \o <<"%">>
    [] line.shape = "validatingBar" -> <<"V", "a", "l", "i", "d", "a", "t", "i", "n", "g">> \o line.text \o BarText(line)
    [] line.shape = "bar" -> BarText(line)
    [] line.shape = "other" -> line.text

\* the lines of a text, joined by line feeds
RECURSIVE TextOf(_)
TextOf(lines) ==
  IF lines = <<>> THEN <<>>
  ELSE IF Len(lines) = 1 THEN LineText(lines[1])
  ELSE LineText(Head(lines)) \o <<"\n">> \o TextOf(Tail(lines))

ParseInit ==
  /\ RunInit
  /\ optionsArg = EmptyOptions
  /\ thrownCode = "uncalled"
  /\ tokens = <<>>
  /\ lineArg \in UNION {[1..n -> Lines] : n \in 1..MaxLines}
  /\ textArg = TextOf(lineArg)
  /\ parsed = <<>>
  /\ NoRequest
  /\ NoConcurrency

\* parseProgress(textArg)
CallParseProgress ==
  /\ parsed = <<>>
  /\ parsed' = <<parseProgress(textArg)>>
  /\ UNCHANGED <<optionsArg, thrownCode, tokens, lineArg, textArg>>
  /\ UNCHANGED <<steamVars, concurrentVars>>
  /\ UNCHANGED runVars

ParseNext == CallParseProgress

ParseSpec == ParseInit /\ [][ParseNext]_vars

(***************************************************************************)
(* The steamcmd operations around the run: install / update / validate,    *)
(* which return a promise, and createProgressEmitter, which returns an     *)
(* emitter.  Each makes sure the executable is in place (isInstalled,      *)
(* then download when it is not) and then awaits install() on its promise  *)
(* surface.  The continuation of an await runs before any further event of *)
(* the child process is handled.                                           *)
(***************************************************************************)
PromiseOps == {"install", "update", "validate"}

\* env.executable() on a supported platform
ExecutablePath == Str(<<"s">>)

SteamOptionsSet ==
  { NoOptions("null"),
    NoOptions("string"),
    EmptyOptions,
    [EmptyOptions EXCEPT !.applicationId = Num(740)],
    [EmptyOptions EXCEPT !.applicationId = Num(0)],
    [EmptyOptions EXCEPT !.applicationId = Num(-1)] }

\* a DownloadError (message omitted), in the shape of the other errors
DownloadError(code) == InstallError(code, Undef)

\* what download() can fail with, by how far it has come
DownloadFailures ==
  IF binary = "unsupported" THEN {"UNSUPPORTED_PLATFORM"}
  ELSE IF ensure.download = "called" THEN {"DIRECTORY_ERROR"}
  ELSE {"NETWORK_ERROR", "EXTRACT_ERROR"}

DownloadStarting == StartingProgress

DownloadComplete == Progress(<<"c", "o", "m", "p", "l", "e", "t", "e">>, Num(100), 10, 10)

\* one way the operation ended: the promise "resolved" or "rejected", the
\* emitter emitted "complete" or "error"; `at` is how many sink calls had
\* been made by then
Outcome(k, error, cause) ==
  [k |-> k, error |-> error, cause |-> cause, at |-> Len(trace)]

\* new SteamCmdError(message, code, cause)
Failed(code, cause) ==
  Outcome(IF request.op = "emitter" THEN "error" ELSE "rejected",
          InstallError(code, Undef), cause)

\* `!options || typeof options !== "object"` of steamCmdInstallAsync
InstallRejects(opts) == opts.kind # "object"

\* variant: update and validate only reject null options
UpdateRejects_NullOnly(opts) == opts.kind \in {"null", "undefined"}

\* `!options || !options.applicationId` of update and validate
UpdateRejects(opts) ==
  opts.kind \in {"null", "undefined"} \/ ~Truthy(opts.applicationId)

\* steamCmdInstallAsync(options), reached through update / validate or
\* not; cb is "none", or how the callback given to install behaves
SteamRequest(op, opts, cb) ==
  /\ request.op = "none"
  /\ request' = [op |-> op, options |-> opts, callback |-> cb]
  /\ IF (op \in {"update", "validate"} /\ UpdateRejects(opts))
        \/ InstallRejects(opts)
     THEN /\ stage' = "settled"
          /\ outcome' = <<Outcome("rejected",
                                  InstallError("INVALID_OPTIONS", Undef),
                                  NoError)>>
     ELSE /\ stage' = "checking"
          /\ outcome' = outcome
  /\ UNCHANGED <<binary, ensure>>
  /\ UNCHANGED <<runVars, restVars>>

\* steamcmd.install(options), update(options), validate(options)
SteamCall(op, opts) == SteamRequest(op, opts, "none")

\* steamcmd.install(options, callback)
SteamInstallCallback(opts, cb) == SteamRequest("installCallback", opts, cb)

\* createProgressEmitter(operation, options): the work is deferred
CreateProgressEmitter(opts) ==
  /\ request.op = "none"
  /\ request' = [op |-> "emitter", options |-> opts, callback |-> "none"]
  /\ stage' = "scheduled"
  /\ UNCHANGED <<binary, ensure, outcome>>
  /\ UNCHANGED <<runVars, restVars>>

\* the deferred function of createProgressEmitter starts
SteamNextTick ==
  /\ stage = "scheduled"
  /\ stage' = "checking"
  /\ UNCHANGED <<request, binary, ensure, outcome>>
  /\ UNCHANGED <<runVars, restVars>>

\* variant: ensureInstalled downloads whatever isInstalled resolved
IsInstalled_AlwaysDownload ==
  /\ stage = "checking"
  /\ ensure' = [installed |-> IF binary = "present" THEN "yes" ELSE "no",
                calls |-> ensure.calls + 1, download |-> "called"]
  /\ stage' = "downloading"
  /\ UNCHANGED <<request, binary, outcome>>
  /\ UNCHANGED <<runVars, restVars>>

\* ensureInstalled: isInstalled() resolves, false when there is no
\* executable path or the file is not executable; then either return or
\* call download
IsInstalled ==
  /\ stage = "checking"
  /\ IF binary = "present"
     THEN /\ ensure' = [ensure EXCEPT !.installed = "yes"]
          /\ stage' = "ready"
     ELSE /\ ensure' = [installed |-> "no", calls |-> ensure.calls + 1,
                        download |-> "called"]
          /\ stage' = "downloading"
  /\ UNCHANGED <<request, binary, outcome>>
  /\ UNCHANGED <<runVars, restVars>>

\* the progress sink download() was given: options.onProgress when it is a
\* function, the emit of createProgressEmitter
DownloadSink(p) ==
  IF request.op = "emitter" \/ request.options.onProgress.t = "function"
  THEN <<Ev("progress", p, <<>>, "", NoError, <<>>, TRUE)>>
  ELSE <<>>

\* download(): the directory exists, the request is sent
DownloadStarts ==
  /\ stage = "downloading"
  /\ binary = "absent"
  /\ ensure.download = "called"
  /\ ensure' = [ensure EXCEPT !.download = "started"]
  /\ trace' = trace \o DownloadSink(DownloadStarting)
  /\ UNCHANGED <<request, stage, binary, outcome>>
  /\ UNCHANGED <<pc, surface, steamCmdPath, options, callerTurn, attached,
                 attachedInTurn, proc, stdoutData, stderrData, stdoutChunks,
                 stderrChunks, closeCode, promise>>
  /\ UNCHANGED restVars

\* download() resolves: the archive is unpacked
DownloadSucceeds ==
  /\ stage = "downloading"
  /\ ensure.download = "started"
  /\ ensure' = [ensure EXCEPT !.download = "done"]
  /\ binary' = "present"
  /\ trace' = trace \o DownloadSink(DownloadComplete)
  /\ stage' = "ready"
  /\ UNCHANGED <<request, outcome>>
  /\ UNCHANGED <<pc, surface, steamCmdPath, options, callerTurn, attached,
                 attachedInTurn, proc, stdoutData, stderrData, stdoutChunks,
                 stderrChunks, closeCode, promise>>
  /\ UNCHANGED restVars

\* variant: ensureInstalled swallows the download error and resolves
DownloadFails_Swallowed(code) ==
  /\ stage = "downloading"
  /\ code \in DownloadFailures
  /\ ensure' = [ensure EXCEPT !.download = code]
  /\ stage' = "ready"
  /\ UNCHANGED <<request, binary, outcome>>
  /\ UNCHANGED <<runVars, restVars>>

\* download() rejects: ensureInstalled throws SteamCmdError INSTALL_FAILED
\* with the download error as cause, which ends the operation
DownloadFails(code) ==
  /\ stage = "downloading"
  /\ code \in DownloadFailures
  /\ ensure' = [ensure EXCEPT !.download = code]
  /\ stage' = "settled"
  /\ outcome' = Append(outcome, Failed("INSTALL_FAILED", DownloadError(code)))
  /\ UNCHANGED <<request, binary>>
  /\ UNCHANGED <<runVars, restVars>>

\* ensureInstalled has resolved: without an executable path the operation
\* fails with SteamCmdError UNSUPPORTED_PLATFORM, else it calls
\* install(executablePath, options), with the two emitting sinks spread in
\* by createProgressEmitter
RunInstall ==
  /\ stage = "ready"
  /\ IF binary = "unsupported"
     THEN /\ pc = "idle"
          /\ stage' = "settled"
          /\ outcome' = Append(outcome, Failed("UNSUPPORTED_PLATFORM", NoError))
          /\ UNCHANGED <<request, binary, ensure>>
          /\ UNCHANGED <<runVars, restVars>>
     ELSE InstallPromise(ExecutablePath,
                         IF request.op = "emitter"
                         THEN SpreadWithSinks(request.options)
                         ELSE request.options)

\* the await of install() is being resumed
Continuing ==
  stage = "ready" /\ promise.state \in {"resolved", "rejected"}

\* variant: RUN_FAILED keeps only the code of the runner's error
RunFailure_CodeOnly(err) ==
  IF request.op = "emitter" THEN Outcome("error", err, NoError)
  ELSE Failed("RUN_FAILED", InstallError(err.code, Undef))

\* the catch around install(): steamCmdInstallAsync wraps the error in a
\* SteamCmdError RUN_FAILED, createProgressEmitter emits it as it is
RunFailure(err) ==
  IF request.op = "emitter" THEN Outcome("error", err, NoError)
  ELSE Failed("RUN_FAILED", err)

\* the operation resumes after `await install(...)`
Continue ==
  /\ Continuing
  /\ ~callerTurn
  /\ stage' = "settled"
  /\ outcome' = Append(outcome,
       IF promise.state = "rejected" THEN RunFailure(promise.error)
       ELSE Outcome(IF request.op = "emitter" THEN "complete" ELSE "resolved",
                    NoError, NoError))
  /\ UNCHANGED <<request, binary, ensure>>
  /\ UNCHANGED <<runVars, restVars>>

\* what a callback that throws throws
Thrown == InstallError("THROWN", Undef)

\* `.then(() => callback(null))` of steamCmdInstall
ThenHandler ==
  /\ request.callback # "none"
  /\ stage = "settled"
  /\ Len(outcome) = 1
  /\ outcome[1].k = "resolved"
  /\ outcome' = Append(outcome, Outcome("callback", NoError, NoError))
  /\ UNCHANGED <<request, stage, binary, ensure>>
  /\ UNCHANGED <<runVars, restVars>>

\* `.catch((err) => callback(err))` of steamCmdInstall: chained after
\* then(), it handles the rejection of steamCmdInstallAsync and an error
\* thrown by callback(null)
CatchHandler ==
  /\ request.callback # "none"
  /\ stage = "settled"
  /\ \/ /\ Len(outcome) = 1
        /\ outcome[1].k = "rejected"
        /\ outcome' = Append(outcome,
             Outcome("callback", outcome[1].error, outcome[1].cause))
     \/ /\ Len(outcome) = 2
        /\ outcome[2].error = NoError
        /\ request.callback = "throws"
        /\ outcome' = Append(outcome, Outcome("callback", Thrown, NoError))
  /\ UNCHANGED <<request, stage, binary, ensure>>
  /\ UNCHANGED <<runVars, restVars>>

\* a handler of steamCmdInstall's promise chain is due
AdapterPending ==
  /\ request.callback # "none"
  /\ stage = "settled"
  /\ \/ Len(outcome) = 1
     \/ Len(outcome) = 2 /\ outcome[2].error = NoError
          /\ request.callback = "throws"

\* the events of the child process, handled by the run
ChildEvent ==
  /\ ~Continuing
  /\ ~AdapterPending
  /\ \/ \E chunk \in StdoutTexts : StdoutData(chunk)
     \/ \E chunk \in StderrTexts : StderrData(chunk)
     \/ ProcError
     \/ \E code \in CloseCodes \cup SpawnErrnos : ProcClose(code)

SteamInit ==
  /\ RunInit
  /\ optionsArg = EmptyOptions
  /\ thrownCode = "uncalled"
  /\ tokens = <<>>
  /\ NoParse
  /\ request = [op |-> "none", options |-> NoOptions("undefined"),
                callback |-> "none"]
  /\ stage = "idle"
  /\ binary \in {"present", "absent", "unsupported"}
  /\ ensure = [installed |-> "unknown", calls |-> 0, download |-> "none"]
  /\ outcome = <<>>
  /\ NoConcurrency

SteamNext ==
  \/ \E op \in PromiseOps, opts \in SteamOptionsSet, p \in SinkChoices :
       SteamCall(op, [opts EXCEPT !.onProgress = p, !.onOutput = p])
  \/ \E opts \in SteamOptionsSet, cb \in {"returns", "throws"} :
       SteamInstallCallback(opts, cb)
  \/ \E opts \in SteamOptionsSet : CreateProgressEmitter(opts)
  \/ SteamNextTick
  \/ IsInstalled
  \/ DownloadStarts
  \/ DownloadSucceeds
  \/ \E code \in DownloadFailures : DownloadFails(code)
  \/ RunInstall
  \/ EndTurn
  \/ Continue
  \/ ThenHandler
  \/ CatchHandler
  \/ ChildEvent

SteamSpec == SteamInit /\ [][SteamNext]_vars

(***************************************************************************)
(* Two install() calls in progress at the same time.  Each call of         *)
(* install() creates its own child process, its own `stdoutData` and       *)
(* `stderrData`, and handlers closed over its own options and callback.    *)
(***************************************************************************)
Runs == {1, 2}

\* the options both calls are given: valid, with both sinks
PairOptions ==
  [EmptyOptions EXCEPT !.applicationId = Num(740),
                       !.onProgress = Fn, !.onOutput = Fn]

PairStdoutTexts ==
  { <<"V", "a", "l", "i", "d", "a", "t", "i", "n", "g", ":", " ", "4", "5", "%">>,
    <<"L", "o", "a", "d", "i", "n", "g", "\n">> }

PairStderrTexts == { <<"E", "R", "R", "\n">> }

PairCloseCodes == {Num(0), Num(2)}

\* a call of install() that has not been made yet
IdleRun ==
  [proc |-> "none", stdoutData |-> <<>>, stderrData |-> <<>>,
   written |-> <<>>, writtenErr |-> <<>>]

PairInit ==
  /\ RunInit
  /\ optionsArg = EmptyOptions
  /\ thrownCode = "uncalled"
  /\ tokens = <<>>
  /\ NoParse
  /\ NoRequest
  /\ pair = [runs |-> [r \in Runs |-> IdleRun],
             log |-> [r \in Runs |-> <<>>]]
  /\ NoEnsuring
  /\ NoDownload

\* variant: the accumulators and sinks are module-level, shared by all calls
Closure_ModuleLevel(r) == 1

\* the call whose locals (`stdoutData`, `stderrData`, `options`, `callback`)
\* the handlers registered by call r are closed over: its own
Closure(r) == r

\* what the handlers of call r deliver, to the sinks they are closed over
Deliver(r, events) ==
  [pair.log EXCEPT ![Closure(r)] =
     @ \o [i \in 1..Len(events) |-> [from |-> r, ev |-> events[i]]]]

\* install(path, options, callback): execFile and onProgress(starting)
PairInstall(r) ==
  /\ pair.runs[r].proc = "none"
  /\ \E p \in {"alive", "failing"} :
       pair' = [runs |-> [pair.runs EXCEPT ![r].proc = p],
                log |-> Deliver(r, StartEvents("callback", PairOptions, FALSE))]
  /\ UNCHANGED <<runVars, pureVars, steamVars, ensuring, dl>>

\* proc.stdout 'data' of the child of call r
PairStdout(r, chunk) ==
  /\ pair.runs[r].proc = "alive"
  /\ Len(pair.runs[r].written) + Len(pair.runs[r].writtenErr) < MaxChunks
  /\ LET c == Closure(r)
         progress == parseProgress(chunk)
     IN pair' =
          [runs |-> [pair.runs EXCEPT
                       ![c].stdoutData = Accumulate(@, chunk),
                       ![r].written = Append(@, chunk)],
           log |-> Deliver(r,
                     OnOutput("callback", PairOptions, FALSE, chunk, "stdout",
                              <<"s", "t", "d", "o", "u", "t", ":", " ">> \o chunk)
                     \o (IF progress.isNull THEN <<>>
                         ELSE OnProgress("callback", PairOptions, FALSE,
                                         progress)))]
  /\ UNCHANGED <<runVars, pureVars, steamVars, ensuring, dl>>

\* proc.stderr 'data' of the child of call r
PairStderr(r, chunk) ==
  /\ pair.runs[r].proc = "alive"
  /\ Len(pair.runs[r].written) + Len(pair.runs[r].writtenErr) < MaxChunks
  /\ LET c == Closure(r)
     IN pair' =
          [runs |-> [pair.runs EXCEPT
                       ![c].stderrData = Accumulate(@, chunk),
                       ![r].writtenErr = Append(@, chunk)],
           log |-> Deliver(r,
                     OnOutput("callback", PairOptions, FALSE, chunk, "stderr",
                              <<"s", "t", "d", "e", "r", "r", ":", " ">> \o chunk))]
  /\ UNCHANGED <<runVars, pureVars, steamVars, ensuring, dl>>

\* proc 'error' of the child of call r
PairError(r) ==
  /\ pair.runs[r].proc = "failing"
  /\ pair' = [runs |-> [pair.runs EXCEPT ![r].proc = "errored"],
              log |-> Deliver(r, Callback("callback", FALSE,
                                          InstallError("SPAWN_ERROR", Undef)))]
  /\ UNCHANGED <<runVars, pureVars, steamVars, ensuring, dl>>

\* proc 'close' of the child of call r
PairClose(r, code) ==
  /\ \/ pair.runs[r].proc = "alive" /\ code \in PairCloseCodes
     \/ pair.runs[r].proc = "errored" /\ code \in SpawnErrnos
  /\ LET c == Closure(r)
     IN pair' =
          [runs |-> [pair.runs EXCEPT ![r].proc = "closed"],
           log |-> Deliver(r, CloseEvents("callback", PairOptions, FALSE, code,
                                          pair.runs[c].stdoutData,
                                          pair.runs[c].stderrData))]
  /\ UNCHANGED <<runVars, pureVars, steamVars, ensuring, dl>>

PairNext ==
  \/ \E r \in Runs : PairInstall(r)
  \/ \E r \in Runs, chunk \in PairStdoutTexts : PairStdout(r, chunk)
  \/ \E r \in Runs, chunk \in PairStderrTexts : PairStderr(r, chunk)
  \/ \E r \in Runs : PairError(r)
  \/ \E r \in Runs, code \in PairCloseCodes \cup SpawnErrnos : PairClose(r, code)

PairSpec == PairInit /\ [][PairNext]_vars

(***************************************************************************)
(* Two ensureInstalled() calls in progress at the same time.  Each awaits  *)
(* isInstalled() and, when that resolved false, awaits download(), which   *)
(* extracts the archive into env.directory().                              *)
(***************************************************************************)
Ops == {1, 2}

\* a call of ensureInstalled() that has not been made yet
IdleOp == [pc |-> "idle", chunks |-> 0, overlapped |-> FALSE]

\* positions of a call that has been made and has not settled
InProgress == {"checking", "requesting", "extracting"}

EnsureInit ==
  /\ RunInit
  /\ optionsArg = EmptyOptions
  /\ thrownCode = "uncalled"
  /\ tokens = <<>>
  /\ NoParse
  /\ NoRequest
  /\ NoPair
  /\ NoDownload
  /\ \E exe \in {"absent", "present"} :
       ensuring = [ops |-> [o \in Ops |-> IdleOp], downloads |-> 0,
                   extracting |-> {}, exe |-> exe]

\* ensureInstalled(): `await isInstalled()`, whose access() is pending
EnsureInstalled(o) ==
  /\ ensuring.ops[o].pc = "idle"
  /\ ensuring' =
       [ensuring EXCEPT
          !.ops[o] = [@ EXCEPT !.pc = "checking",
                               !.overlapped =
                                  \E q \in Ops \ {o} :
                                    ensuring.ops[q].pc \in InProgress]]
  /\ UNCHANGED <<runVars, pureVars, steamVars, pair, dl>>

\* access() settles: `if (installed) return`, else download() is called,
\* which makes the directory and sends the request
AccessSettles(o) ==
  /\ ensuring.ops[o].pc = "checking"
  /\ IF ensuring.exe = "present"
     THEN ensuring' = [ensuring EXCEPT !.ops[o].pc = "returned"]
     ELSE ensuring' = [ensuring EXCEPT !.ops[o].pc = "requesting",
                                       !.downloads = @ + 1]
  /\ UNCHANGED <<runVars, pureVars, steamVars, pair, dl>>

\* the response arrives: a 200 is piped into the extractor
EnsureResponse(o, ok) ==
  /\ ensuring.ops[o].pc = "requesting"
  /\ IF ok
     THEN ensuring' = [ensuring EXCEPT !.ops[o].pc = "extracting",
                                       !.extracting = @ \cup {o}]
     ELSE ensuring' = [ensuring EXCEPT !.ops[o].pc = "failed"]
  /\ UNCHANGED <<runVars, pureVars, steamVars, pair, dl>>

\* the request fails: download rejects, ensureInstalled throws INSTALL_FAILED
EnsureNetworkError(o) ==
  /\ ensuring.ops[o].pc = "requesting"
  /\ ensuring' = [ensuring EXCEPT !.ops[o].pc = "failed"]
  /\ UNCHANGED <<runVars, pureVars, steamVars, pair, dl>>

\* a chunk of the archive is written into the directory
EnsureData(o) ==
  /\ ensuring.ops[o].pc = "extracting"
  /\ ensuring.ops[o].chunks < MaxChunks
  /\ ensuring' = [ensuring EXCEPT !.ops[o].chunks = @ + 1]
  /\ UNCHANGED <<runVars, pureVars, steamVars, pair, dl>>

\* the extractor fails
EnsureExtractError(o) ==
  /\ ensuring.ops[o].pc = "extracting"
  /\ ensuring' = [ensuring EXCEPT !.ops[o].pc = "failed",
                                  !.extracting = @ \ {o}]
  /\ UNCHANGED <<runVars, pureVars, steamVars, pair, dl>>

\* the extractor finishes: the executable is in place
EnsureFinish(o) ==
  /\ ensuring.ops[o].pc = "extracting"
  /\ ensuring' = [ensuring EXCEPT !.ops[o].pc = "installed",
                                  !.extracting = @ \ {o},
                                  !.exe = "present"]
  /\ UNCHANGED <<runVars, pureVars, steamVars, pair, dl>>

EnsureNext ==
  \/ \E o \in Ops : EnsureInstalled(o)
  \/ \E o \in Ops : AccessSettles(o)
  \/ \E o \in Ops, ok \in BOOLEAN : EnsureResponse(o, ok)
  \/ \E o \in Ops : EnsureNetworkError(o)
  \/ \E o \in Ops : EnsureData(o)
  \/ \E o \in Ops : EnsureExtractError(o)
  \/ \E o \in Ops : EnsureFinish(o)

EnsureSpec == EnsureInit /\ [][EnsureNext]_vars

(***************************************************************************)
(* download(options, callback) and the events of its request, response     *)
(* and extractor.                                                          *)
(***************************************************************************)
\* values of env.platform(); DOWNLOAD_URLS has the first three
EnvPlatforms == {"darwin", "linux", "win32", "freebsd"}

DOWNLOAD_URLS == {"darwin", "linux", "win32"}

StatusCodes == {200, 404}

\* parseInt(res.headers['content-length'] || '0', 10)
ContentLengths == {0, 3}

\* chunk.length of a 'data' event
ChunkLengths == {1, 2}

\* a call of the progress sink
DlProgress(phase, percent, bytesDownloaded, totalBytes) ==
  [k |-> "progress", phase |-> phase, percent |-> percent,
   bytesDownloaded |-> bytesDownloaded, totalBytes |-> totalBytes,
   code |-> ""]

\* a call of the callback: with null ("") or a DownloadError of `code`
DlCallback(code) ==
  [k |-> "callback", phase |-> "", percent |-> 0, bytesDownloaded |-> 0,
   totalBytes |-> 0, code |-> code]

\* Math.round((bytesDownloaded / totalBytes) * 100), or 0 without a total
DlPercent(bytesDownloaded, totalBytes) ==
  IF totalBytes > 0
  THEN (200 * bytesDownloaded + totalBytes) \div (2 * totalBytes)
  ELSE 0

DownloadInit ==
  /\ RunInit
  /\ optionsArg = EmptyOptions
  /\ thrownCode = "uncalled"
  /\ tokens = <<>>
  /\ NoParse
  /\ NoRequest
  /\ NoPair
  /\ NoEnsuring
  /\ NoDownload

\* download(options, callback) up to https.get
Download(platformValue, mkdirThrows) ==
  /\ dl.stage = "uncalled"
  /\ IF platformValue \notin DOWNLOAD_URLS
     THEN dl' = [dl EXCEPT !.stage = "returned",
                           !.log = Append(@, DlCallback("UNSUPPORTED_PLATFORM"))]
     ELSE IF mkdirThrows
     THEN dl' = [dl EXCEPT !.stage = "returned",
                           !.log = Append(@, DlCallback("DIRECTORY_ERROR"))]
     ELSE dl' = [dl EXCEPT !.stage = "requesting",
                           !.platform = platformValue,
                           !.log = Append(@, DlProgress("starting", 0, 0, 0))]
  /\ UNCHANGED <<runVars, pureVars, steamVars, pair, ensuring>>

\* the response callback of https.get
DownloadResponse(statusCode, totalBytes) ==
  /\ dl.stage = "requesting"
  /\ IF statusCode # 200
     THEN dl' = [dl EXCEPT !.stage = "refused",
                           !.log = Append(@, DlCallback("HTTP_ERROR"))]
     ELSE dl' = [dl EXCEPT !.stage = "streaming",
                           !.totalBytes = totalBytes]
  /\ UNCHANGED <<runVars, pureVars, steamVars, pair, ensuring>>

\* res 'data'
DownloadData(length) ==
  /\ dl.stage = "streaming"
  /\ dl.chunks < MaxChunks
  /\ LET bytesDownloaded == dl.bytesDownloaded + length
     IN dl' = [dl EXCEPT
                 !.chunks = @ + 1,
                 !.bytesDownloaded = bytesDownloaded,
                 !.log = Append(@, DlProgress("downloading",
                                     DlPercent(bytesDownloaded, dl.totalBytes),
                                     bytesDownloaded, dl.totalBytes))]
  /\ UNCHANGED <<runVars, pureVars, steamVars, pair, ensuring>>

\* 'error' of the extractor (tar.x or unzip.Extract); the response is
\* unpiped and its socket stays open
DownloadExtractError ==
  /\ dl.stage = "streaming"
  /\ dl' = [dl EXCEPT !.stage = "extractFailed",
                      !.log = Append(@, DlCallback("EXTRACT_ERROR"))]
  /\ UNCHANGED <<runVars, pureVars, steamVars, pair, ensuring>>

\* 'finish' of tar.x (darwin, linux) or 'close' of unzip.Extract (win32),
\* after the response has ended
DownloadFinish ==
  /\ dl.stage = "streaming"
  /\ dl' = [dl EXCEPT !.stage = "finished",
                      !.log = @ \o <<DlProgress("complete", 100,
                                                dl.bytesDownloaded,
                                                dl.totalBytes),
                                     DlCallback("")>>]
  /\ UNCHANGED <<runVars, pureVars, steamVars, pair, ensuring>>

\* 'error' of the request: the socket failed or the response could not be
\* parsed; the request emits it while its socket is open, whether or not a
\* response has arrived
DownloadRequestError ==
  /\ dl.stage \in {"requesting", "refused", "streaming", "extractFailed"}
  /\ dl' = [dl EXCEPT !.stage = "disconnected",
                      !.log = Append(@, DlCallback("NETWORK_ERROR"))]
  /\ UNCHANGED <<runVars, pureVars, steamVars, pair, ensuring>>

DownloadNext ==
  \/ \E platformValue \in EnvPlatforms, mkdirThrows \in BOOLEAN :
       Download(platformValue, mkdirThrows)
  \/ \E statusCode \in StatusCodes, totalBytes \in ContentLengths :
       DownloadResponse(statusCode, totalBytes)
  \/ \E length \in ChunkLengths : DownloadData(length)
  \/ DownloadExtractError
  \/ DownloadFinish
  \/ DownloadRequestError

DownloadSpec == DownloadInit /\ [][DownloadNext]_vars

(***************************************************************************)
(* Observations on the history of a run.                                   *)
(***************************************************************************)
\* positions of the trace whose entry is of one of the kinds
IndicesOf(kinds) == {i \in 1..Len(trace) : trace[i].k \in kinds}

\* invocations of the callback given to install()
CallbackIdx == IndicesOf({"callback"})

\* the emitter's 'complete' and 'error' events
TerminalIdx == IndicesOf({"complete", "error"})

\* every event of the emitter
EmitIdx == IndicesOf({"progress", "output", "complete", "error"})

\* progress values delivered to the progress sink, in order
ProgressIdx == IndicesOf({"progress"})

\* the run is over: rejected by validation, closed, or ended by a throw
Finished == pc \in {"invalid", "done", "crashed"}

\* an error was signalled on the surface in use
ErrorSignalled ==
  CASE surface = "callback" -> \E i \in CallbackIdx : trace[i].err # NoError
    [] surface = "promise" -> promise.state = "rejected"
    [] surface = "emitter" -> IndicesOf({"error"}) # {}
    [] OTHER -> FALSE

\* success was signalled on the surface in use
SuccessSignalled ==
  CASE surface = "callback" -> \E i \in CallbackIdx : trace[i].err = NoError
    [] surface = "promise" -> promise.state = "resolved"
    [] surface = "emitter" -> IndicesOf({"complete"}) # {}
    [] OTHER -> FALSE

\* the progress sink install() works with is a function of the caller
HasProgressSink == EffOptions(surface, options).onProgress.t = "function"

\* install() has run and both the options and the path passed validation
RunValidated ==
  /\ pc \notin {"idle", "scheduled"}
  /\ validateOptions(EffOptions(surface, options)) = ""
  /\ steamCmdPath.t = "string"
  /\ steamCmdPath.s # <<>>

\* install() has run and the options or the path failed validation
RunRejected ==
  /\ pc \notin {"idle", "scheduled"}
  /\ \/ validateOptions(EffOptions(surface, options)) # ""
     \/ steamCmdPath.t # "string"
     \/ steamCmdPath.s = <<>>

\* the progress values delivered, in order
RECURSIVE ProgressOf(_)
ProgressOf(events) ==
  IF events = <<>> THEN <<>>
  ELSE (IF Head(events).k = "progress" THEN <<Head(events).progress>>
        ELSE <<>>) \o ProgressOf(Tail(events))

\* what parseProgress yields for the chunks that yield something
RECURSIVE ParsedOf(_)
ParsedOf(chunks) ==
  IF chunks = <<>> THEN <<>>
  ELSE LET progress == parseProgress(Head(chunks))
       IN (IF progress.isNull THEN <<>> ELSE <<progress>>)
            \o ParsedOf(Tail(chunks))

\* concatenation of a sequence of chunks
RECURSIVE Concat(_)
Concat(chunks) ==
  IF chunks = <<>> THEN <<>> ELSE Head(chunks) \o Concat(Tail(chunks))

\* the spawn of this run failed (the child emitted 'error')
SpawnFailed == proc = "errored" \/ (proc = "closed" /\ closeCode \in SpawnErrnos)

CompleteDelivered == \E i \in ProgressIdx : trace[i].progress = CompleteProgress

(***************************************************************************)
(* Claims.                                                                 *)
(***************************************************************************)

\* C1: a run started with installWithProgress emits exactly one of
\* 'complete' / 'error', and no 'progress', 'output', 'complete' or 'error'
\* event is emitted after it.
C1_OneTerminalEventLast ==
  surface = "emitter" =>
    /\ Cardinality(TerminalIdx) <= 1
    /\ \A i \in TerminalIdx : \A j \in EmitIdx : j <= i
    /\ Finished => Cardinality(TerminalIdx) = 1

\* C2: the callback given to install() is invoked exactly once over the
\* whole run, also when the child emits 'error' and later 'close'.
C2_CallbackExactlyOnce ==
  /\ Cardinality(CallbackIdx) <= 1
  /\ Finished => Cardinality(CallbackIdx) = 1

\* C3: no run both delivers the synthetic 'complete' progress and signals
\* an error.
C3_CompleteExcludesError == ~(CompleteDelivered /\ ErrorSignalled)

C5_ExitZeroSequence ==
  (proc = "closed" /\ closeCode = Num(0)) =>
    /\ HasProgressSink =>
         ProgressOf(trace) = <<StartingProgress>> \o ParsedOf(stdoutChunks)
                               \o <<CompleteProgress>>
    /\ Cardinality(CallbackIdx) = 1
    /\ \A i \in CallbackIdx :
         /\ trace[i].err = NoError
         /\ \A j \in ProgressIdx : j < i
    /\ SuccessSignalled
    /\ ~ErrorSignalled

C5_Witness ==
  /\ proc = "closed"
  /\ closeCode = Num(0)
  /\ HasProgressSink
  /\ Len(ProgressOf(trace)) >= 3

\* C6: when the child closes with a nonzero exit code (any value other than
\* 0) the run fails with EXIT_ERROR carrying that exit code, and no
\* 'complete' progress is delivered.
C6_NonzeroExitFails ==
  (proc = "closed" /\ closeCode.t = "int" /\ closeCode.n # 0) =>
    /\ \E i \in CallbackIdx :
         /\ trace[i].err.code = "EXIT_ERROR"
         /\ trace[i].err.exitCode = closeCode
    /\ ~CompleteDelivered

\* C7: the stdout / stderr of an EXIT_ERROR is the concatenation, in
\* arrival order, of exactly the chunks received on that stream.
C7_ExitErrorCarriesOutput ==
  \A i \in CallbackIdx :
    trace[i].err.code = "EXIT_ERROR" =>
      /\ trace[i].err.stdout = Str(Concat(stdoutChunks))
      /\ trace[i].err.stderr = Str(Concat(stderrChunks))

C7_Witness ==
  /\ \E i \in CallbackIdx : trace[i].err.code = "EXIT_ERROR"
  /\ Len(stdoutChunks) = 2

\* C8: when the child fails to spawn, the outcome signalled is an
\* InstallError SPAWN_ERROR without exit code, and the run is not reported
\* as successful.
C8_SpawnFailureNotSuccess ==
  (SpawnFailed /\ CallbackIdx # {}) =>
    /\ \A i \in CallbackIdx :
         /\ trace[i].err.code = "SPAWN_ERROR"
         /\ trace[i].err.exitCode = Undef
    /\ ~SuccessSignalled

\* C9: when validateOptions rejects the options, or the path is not a
\* non-empty string, install() spawns nothing and calls neither onProgress
\* nor onOutput: its only effect is one error given to the callback or
\* promise.
C9_RejectedRunOnlyErrors ==
  RunRejected =>
    /\ proc = "none"
    /\ IndicesOf({"spawn", "progress", "output", "console"}) = {}
    /\ Cardinality(CallbackIdx) = 1
    /\ \A i \in CallbackIdx : trace[i].err # NoError
    /\ ErrorSignalled
    /\ ~SuccessSignalled

C9_Witness ==
  /\ RunRejected
  /\ validateOptions(EffOptions(surface, options)) = ""
  /\ \E i \in CallbackIdx : trace[i].err.code = "INVALID_PATH"

\* C10: installWithProgress returns before the run starts, and listeners
\* attached in the turn of the call receive every event of the run,
\* the 'starting' progress included.
C10_ListenerInTurnHearsAll ==
  surface = "emitter" =>
    /\ callerTurn => (pc = "scheduled" /\ trace = <<>>)
    /\ attachedInTurn => \A i \in EmitIdx : trace[i].heard

C10_Witness ==
  /\ surface = "emitter"
  /\ attachedInTurn
  /\ pc = "done"
  /\ \E i \in ProgressIdx :
       trace[i].progress = StartingProgress /\ trace[i].heard

\* the output sink install() works with is a function of the caller
HasOutputSink == EffOptions(surface, options).onOutput.t = "function"

\* the texts given to the output sink with the tag, in order
RECURSIVE OutputOf(_, _)
OutputOf(events, tag) ==
  IF events = <<>> THEN <<>>
  ELSE (IF Head(events).k = "output" /\ Head(events).tag = tag
        THEN <<Head(events).text>> ELSE <<>>) \o OutputOf(Tail(events), tag)

\* C11: a chunk received on stderr never produces a progress event, even
\* when its text has a progress format: the step that receives it appends
\* it to the stderr accumulator and forwards it to the output sink tagged
\* 'stderr' (to the console when there is no sink), and does nothing else.
C11_StderrNeverProgress ==
  [][stderrChunks' # stderrChunks =>
       /\ ProgressOf(trace') = ProgressOf(trace)
       /\ stderrData' = stderrData \o stderrChunks'[Len(stderrChunks')]
       /\ stdoutData' = stdoutData
       /\ Len(trace') = Len(trace) + 1
       /\ SubSeq(trace', 1, Len(trace)) = trace
       /\ trace'[Len(trace')].k = IF HasOutputSink THEN "output" ELSE "console"
       /\ HasOutputSink =>
            /\ trace'[Len(trace')].tag = "stderr"
            /\ trace'[Len(trace')].text = stderrChunks'[Len(stderrChunks')]
    ]_vars

C11_Witness ==
  /\ HasProgressSink
  /\ HasOutputSink
  /\ \E i \in 1..Len(stderrChunks) : ~parseProgress(stderrChunks[i]).isNull
  /\ OutputOf(trace, "stderr") = stderrChunks

ExitMessage(code) ==
  <<"P", "r", "o", "c", "e", "s", "s", " ", "e", "x", "i", "t", "e", "d", " ", "w", "i", "t", "h", " ", "c", "o", "d", "e", " ">>
    \o ToText(code) \o <<"\n">>

IsSet(v) == v # Undef /\ v # Str(<<>>)

\* token begins with prefix
HasPrefix(token, prefix) ==
  /\ Len(token) >= Len(prefix)
  /\ SubSeq(token, 1, Len(prefix)) = prefix

\* the texts of the command line the external tool understands
PlatformPrefix == <<"+", "@", "s", "S", "t", "e", "a", "m", "C", "m", "d", "F", "o", "r", "c", "e", "P", "l", "a", "t", "f", "o", "r", "m", "T", "y", "p", "e", " ">>

NoPromptToken == <<"+", "@", "N", "o", "P", "r", "o", "m", "p", "t", "F", "o", "r", "P", "a", "s", "s", "w", "o", "r", "d", " ", "1">>

ShutdownToken == <<"+", "@", "S", "h", "u", "t", "d", "o", "w", "n", "O", "n", "F", "a", "i", "l", "e", "d", "C", "o", "m", "m", "a", "n", "d", " ", "1">>

SteamGuardPrefix == <<"+", "s", "e", "t", "_", "s", "t", "e", "a", "m", "_", "g", "u", "a", "r", "d", "_", "c", "o", "d", "e", " ">>

LoginPrefix == <<"+", "l", "o", "g", "i", "n", " ">>

AnonymousLoginToken == <<"+", "l", "o", "g", "i", "n", " ", "a", "n", "o", "n", "y", "m", "o", "u", "s">>

InstallDirPrefix == <<"+", "f", "o", "r", "c", "e", "_", "i", "n", "s", "t", "a", "l", "l", "_", "d", "i", "r", " ">>

AppUpdatePrefix == <<"+", "a", "p", "p", "_", "u", "p", "d", "a", "t", "e", " ">>

ValidateSuffix == <<" ", "v", "a", "l", "i", "d", "a", "t", "e">>

WorkshopPrefix == <<"+", "w", "o", "r", "k", "s", "h", "o", "p", "_", "d", "o", "w", "n", "l", "o", "a", "d", "_", "i", "t", "e", "m", " ">>

QuitToken == <<"+", "q", "u", "i", "t">>

\* positions of the tokens beginning with prefix
TokensWith(prefix) == {i \in 1..Len(tokens) : HasPrefix(tokens[i], prefix)}

\* a value denotes a positive integer: a number, or a decimal numeral
PositiveInteger(v) ==
  \/ v.t = "int" /\ v.n > 0
  \/ v.t = "string" /\ v.s # <<>> /\ AllIn(v.s, Digits) /\ DigitsValue(v.s) > 0

\* the ids of optionsArg satisfy the invariants of InstallOptions
IdsWellFormed ==
  /\ optionsArg.applicationId # Undef => PositiveInteger(optionsArg.applicationId)
  /\ optionsArg.workshopId # Undef =>
       /\ PositiveInteger(optionsArg.workshopId)
       /\ optionsArg.applicationId # Undef

\* C13: the last token createArguments returns is '+quit', and when
\* platform is set the first token is '+@sSteamCmdForcePlatformType
\* <platform>', whichever other optional fields are set.
C13_QuitLastPlatformFirst ==
  tokens # <<>> =>
    /\ tokens[Len(tokens)] = QuitToken
    /\ IsSet(optionsArg.platform) =>
         tokens[1] = PlatformPrefix \o optionsArg.platform.s

C13_Witness ==
  /\ tokens # <<>>
  /\ IsSet(optionsArg.platform)
  /\ IsSet(optionsArg.steamGuardCode)
  /\ IsSet(optionsArg.username)
  /\ IsSet(optionsArg.path)
  /\ optionsArg.workshopId = Num(12)
  /\ optionsArg.applicationId = Num(740)

\* C14: createArguments never emits both an app_update and a
\* workshop_download_item token; with both ids set it emits exactly one
\* workshop_download_item token naming both ids and no app_update token,
\* with only applicationId set exactly one app_update token and no
\* workshop_download_item token.
C14_AppUpdateOrWorkshop ==
  tokens # <<>> =>
    /\ TokensWith(AppUpdatePrefix) = {} \/ TokensWith(WorkshopPrefix) = {}
    /\ (IdsWellFormed /\ optionsArg.applicationId # Undef
          /\ optionsArg.workshopId # Undef) =>
         /\ TokensWith(AppUpdatePrefix) = {}
         /\ Cardinality(TokensWith(WorkshopPrefix)) = 1
         /\ \A i \in TokensWith(WorkshopPrefix) :
              tokens[i] = WorkshopPrefix \o ToText(optionsArg.applicationId)
                            \o <<" ">> \o ToText(optionsArg.workshopId)
    /\ (IdsWellFormed /\ optionsArg.applicationId # Undef
          /\ optionsArg.workshopId = Undef) =>
         /\ TokensWith(WorkshopPrefix) = {}
         /\ Cardinality(TokensWith(AppUpdatePrefix)) = 1
         /\ \A i \in TokensWith(AppUpdatePrefix) :
              tokens[i] = AppUpdatePrefix \o ToText(optionsArg.applicationId)
                            \o ValidateSuffix

C14_Witness ==
  /\ optionsArg.applicationId = Str(Chars740)
  /\ optionsArg.workshopId = Num(12)
  /\ Cardinality(TokensWith(WorkshopPrefix)) = 1

\* place of a token in the order of the command line, 0 for a token that
\* is none of the eight kinds
Rank(token) ==
  CASE HasPrefix(token, PlatformPrefix) -> 1
    [] token = NoPromptToken -> 2
    [] token = ShutdownToken -> 3
    [] HasPrefix(token, SteamGuardPrefix) -> 4
    [] HasPrefix(token, LoginPrefix) -> 5
    [] HasPrefix(token, InstallDirPrefix) -> 6
    [] HasPrefix(token, AppUpdatePrefix) -> 7
    [] HasPrefix(token, WorkshopPrefix) -> 7
    [] token = QuitToken -> 8
    [] OTHER -> 0

\* C15: the tokens createArguments emits appear in the order platform,
\* '+@NoPromptForPassword 1', '+@ShutdownOnFailedCommand 1',
\* set_steam_guard_code, login, force_install_dir, app_update or
\* workshop_download_item, '+quit'; so the steam-guard token precedes the
\* login token and force_install_dir precedes app_update /
\* workshop_download_item.
C15_TokenOrder ==
  tokens # <<>> =>
    /\ \A i \in 1..Len(tokens) : Rank(tokens[i]) # 0
    /\ \A i, j \in 1..Len(tokens) :
         i < j => Rank(tokens[i]) < Rank(tokens[j])
    /\ TokensWith(NoPromptToken) # {}
    /\ TokensWith(ShutdownToken) # {}

C15_Witness ==
  /\ Len(tokens) = 8
  /\ TokensWith(SteamGuardPrefix) # {}
  /\ TokensWith(InstallDirPrefix) # {}
  /\ TokensWith(WorkshopPrefix) # {}

\* C16: createArguments emits exactly one login token: '+login <username>
\* <password>' when username and password are set, '+login <username>' when
\* only username is set, '+login anonymous' otherwise.
C16_OneLoginToken ==
  tokens # <<>> =>
    /\ Cardinality(TokensWith(LoginPrefix)) = 1
    /\ \A i \in TokensWith(LoginPrefix) :
         tokens[i] =
           IF IsSet(optionsArg.username) /\ IsSet(optionsArg.password)
             THEN LoginPrefix \o optionsArg.username.s \o <<" ">>
                    \o optionsArg.password.s
           ELSE IF IsSet(optionsArg.username)
             THEN LoginPrefix \o optionsArg.username.s
           ELSE AnonymousLoginToken

C16_Witness ==
  /\ IsSet(optionsArg.username)
  /\ IsSet(optionsArg.password)
  /\ IsSet(optionsArg.steamGuardCode)
  /\ Cardinality(TokensWith(LoginPrefix)) = 1

\* the codes of the errors given to the callback of install(), in order
ErrorCodes == [i \in 1..Cardinality(CallbackIdx) |->
                 trace[CHOOSE k \in CallbackIdx :
                         Cardinality({m \in CallbackIdx : m <= k}) = i].err.code]

\* C17: a run whose options give workshopId without applicationId fails
\* with MISSING_APP_ID, whether or not workshopId is a positive integer;
\* createArguments is not called and no process is spawned.
C17_WorkshopNeedsApplication ==
  (pc \notin {"idle", "scheduled"} /\ options.kind = "object"
     /\ options.workshopId # Undef /\ options.applicationId = Undef) =>
    /\ ErrorCodes = <<"MISSING_APP_ID">>
    /\ ErrorSignalled
    /\ ~SuccessSignalled
    /\ IndicesOf({"spawn"}) = {}
    /\ proc = "none"
    /\ pc \in {"invalid", "crashed"}

C17_Witness ==
  /\ options.kind = "object"
  /\ options.applicationId = Undef
  /\ options.workshopId # Undef
  /\ ~PositiveInteger(options.workshopId)
  /\ ErrorCodes = <<"MISSING_APP_ID">>

\* C18: validateOptions rejects with INVALID_APP_ID every record whose
\* applicationId is given and is not a positive integer, and with
\* INVALID_WORKSHOP_ID every record with a valid applicationId whose
\* workshopId is given and is not a positive integer; positive integers
\* given as numbers or numeral strings are accepted as ids.
C18_IdsArePositiveIntegers ==
  thrownCode # "uncalled" =>
    /\ (optionsArg.applicationId # Undef
          /\ ~PositiveInteger(optionsArg.applicationId)) =>
         thrownCode = "INVALID_APP_ID"
    /\ (PositiveInteger(optionsArg.applicationId)
          /\ optionsArg.workshopId # Undef
          /\ ~PositiveInteger(optionsArg.workshopId)) =>
         thrownCode = "INVALID_WORKSHOP_ID"
    /\ (optionsArg.applicationId = Undef
          \/ PositiveInteger(optionsArg.applicationId)) =>
         thrownCode # "INVALID_APP_ID"
    /\ (optionsArg.workshopId = Undef
          \/ PositiveInteger(optionsArg.workshopId)) =>
         thrownCode # "INVALID_WORKSHOP_ID"
    /\ (IdsWellFormed /\ optionsArg.platform = Undef
          /\ optionsArg.password = Undef
          /\ optionsArg.steamGuardCode = Undef) =>
         thrownCode = ""

C18_Witness ==
  /\ thrownCode = "INVALID_WORKSHOP_ID"
  /\ optionsArg.applicationId = Str(Chars740)
  /\ optionsArg.workshopId = Frac(1, <<"5">>)

\* applicationId, workshopId and platform of optionsArg are well formed
\* (the fields validateOptions looks at before the authentication fields)
OtherFieldsWellFormed ==
  /\ IdsWellFormed
  /\ optionsArg.platform # Undef =>
       \E i \in 1..Len(VALID_PLATFORMS) :
         optionsArg.platform = Str(VALID_PLATFORMS[i])

\* C19 (as stated): every record in which password or steamGuardCode is
\* present and username is absent is rejected with MISSING_USERNAME, and
\* every record with username, with any combination of password and
\* steamGuardCode, is accepted.
C19_MissingUsernameAlways ==
  thrownCode # "uncalled" =>
    /\ ((IsSet(optionsArg.password) \/ IsSet(optionsArg.steamGuardCode))
          /\ ~IsSet(optionsArg.username)) =>
         thrownCode = "MISSING_USERNAME"
    /\ IsSet(optionsArg.username) => thrownCode = ""

\* C19 (amended): among the records whose applicationId, workshopId and
\* platform are well formed, those in which password or steamGuardCode is
\* present and username is absent are rejected with MISSING_USERNAME, and
\* those with username, with any combination of password and
\* steamGuardCode, are accepted; no record with username is rejected with
\* MISSING_USERNAME.
C19_MissingUsernameAfterOtherChecks ==
  thrownCode # "uncalled" =>
    /\ (OtherFieldsWellFormed
          /\ (IsSet(optionsArg.password) \/ IsSet(optionsArg.steamGuardCode))
          /\ ~IsSet(optionsArg.username)) =>
         thrownCode = "MISSING_USERNAME"
    /\ (OtherFieldsWellFormed /\ IsSet(optionsArg.username)) =>
         thrownCode = ""
    /\ IsSet(optionsArg.username) => thrownCode # "MISSING_USERNAME"

C19_Witness ==
  /\ thrownCode = "MISSING_USERNAME"
  /\ ~IsSet(optionsArg.password)
  /\ IsSet(optionsArg.steamGuardCode)
  /\ optionsArg.applicationId = Num(740)
  /\ IsSet(optionsArg.platform)

\* the executable path is missing, empty or not a string
PathInvalid == steamCmdPath.t # "string" \/ steamCmdPath.s = <<>>

\* C20: install() fails with INVALID_PATH whenever the options are valid
\* and the path is missing, empty or not a string; when the options and
\* the path are both invalid the options error is the one reported; in
\* both cases exactly one error is delivered.
C20_InvalidPathAfterOptions ==
  (pc \notin {"idle", "scheduled"} /\ PathInvalid) =>
    /\ validateOptions(EffOptions(surface, options)) = "" =>
         ErrorCodes = <<"INVALID_PATH">>
    /\ validateOptions(EffOptions(surface, options)) # "" =>
         ErrorCodes = <<validateOptions(EffOptions(surface, options))>>
    /\ ErrorSignalled
    /\ ~SuccessSignalled
    /\ surface = "promise" => promise.error.code = ErrorCodes[1]
    /\ proc = "none"

C20_Witness ==
  /\ pc = "invalid"
  /\ steamCmdPath = Num(5)
  /\ ErrorCodes = <<"INVALID_APP_ID">>

(***************************************************************************)
(* Observations on a parsed text.                                          *)
(***************************************************************************)
\* positions of the lines of the text that have one of the shapes
LinesOf(shapes) == {i \in 1..Len(lineArg) : lineArg[i].shape \in shapes}

UpdateAt == LinesOf({"update"})

ValidatingAt == LinesOf({"validating", "validatingBar"})

BarAt == {i \in LinesOf({"bar", "validatingBar"}) : lineArg[i].hashes > 0}

First(positions) == CHOOSE i \in positions : \A j \in positions : i <= j

\* a percentage <<whole, hundredths>> rounded half-up to an integer
Rounded(percent) == percent[1] + (IF percent[2] >= 50 THEN 1 ELSE 0)

\* C21: parseProgress returns the result of the first format, in the order
\* update-state, validation, progress bar, that matches the text: an
\* update-state line anywhere in the text gives its phase word and its byte
\* counts, otherwise a validation line gives phase "validating", otherwise
\* a progress bar gives phase "downloading", and a text with none of them
\* (the empty and the blank text included) gives null.
C21_FirstMatchingFormat ==
  parsed # <<>> =>
    IF UpdateAt # {} THEN
      /\ ~parsed[1].isNull
      /\ parsed[1].phase = lineArg[First(UpdateAt)].word.lower
      /\ parsed[1].bytesDownloaded = lineArg[First(UpdateAt)].bytes[1]
      /\ parsed[1].totalBytes = lineArg[First(UpdateAt)].bytes[2]
    ELSE IF ValidatingAt # {} THEN
      /\ ~parsed[1].isNull
      /\ parsed[1].phase = <<"v", "a", "l", "i", "d", "a", "t", "i", "n", "g">>
    ELSE IF BarAt # {} THEN
      /\ ~parsed[1].isNull
      /\ parsed[1].phase = <<"d", "o", "w", "n", "l", "o", "a", "d", "i", "n", "g">>
    ELSE parsed[1].isNull

\* a validation line followed by an update-state line was parsed as the
\* update-state line
C21_Witness ==
  /\ parsed # <<>>
  /\ Len(lineArg) = 2
  /\ lineArg[1].shape = "validating"
  /\ lineArg[2].shape = "update"
  /\ parsed[1].phase = lineArg[2].word.lower
  /\ parsed[1].totalBytes = 2000000000

\* C22: for a text with an update-state line, parseProgress returns the
\* line's percentage rounded half-up to an integer, its phase word in lower
\* case, and its two byte counts as the integers written.
C22_UpdateLineFields ==
  parsed # <<>> /\ UpdateAt # {} =>
    parsed[1] = Progress(lineArg[First(UpdateAt)].word.lower,
                         Num(Rounded(lineArg[First(UpdateAt)].percent)),
                         lineArg[First(UpdateAt)].bytes[1],
                         lineArg[First(UpdateAt)].bytes[2])

\* "Update state (0xAB) Verifying, progress: 12.50 (...)" was parsed to
\* phase "verifying", percent 13
C22_Witness ==
  /\ parsed # <<>>
  /\ Len(lineArg) = 1
  /\ lineArg[1].shape = "update"
  /\ lineArg[1].percent = <<12, 50>>
  /\ lineArg[1].word.written # lineArg[1].word.lower
  /\ parsed[1].percent = Num(13)
  /\ parsed[1].phase = <<"v", "e", "r", "i", "f", "y", "i", "n", "g">>
  /\ parsed[1].bytesDownloaded = 1234567890

\* C23: every progress value delivered to the progress sink or the
\* 'progress' event has an integer percent from 0 to 100 and byte counts
\* that are non-negative integers.
C23_ProgressInRange ==
  \A i \in ProgressIdx :
    /\ IsInteger(trace[i].progress.percent)
    /\ trace[i].progress.percent.n \in 0..100
    /\ trace[i].progress.bytesDownloaded >= 0
    /\ trace[i].progress.totalBytes >= 0

\* the part of C23 about the percent being a number at all
C23_PercentIsNumber ==
  \A i \in ProgressIdx : ~IsNaN(trace[i].progress.percent)

(***************************************************************************)
(* Observations on a steamcmd operation.                                   *)
(***************************************************************************)
DownloadCodes ==
  {"UNSUPPORTED_PLATFORM", "DIRECTORY_ERROR", "NETWORK_ERROR", "EXTRACT_ERROR"}

DownloadFailed == ensure.download \in DownloadCodes

\* ensureInstalled has resolved
Ensured == ensure.installed = "yes" \/ ensure.download = "done"

RunnerInvoked == pc # "idle"

Spawned == IndicesOf({"spawn"}) # {} \/ proc # "none"

\* the runner's own report of failure: the error of its first callback
RunnerFailed ==
  CallbackIdx # {} /\ trace[First(CallbackIdx)].err # NoError

RunnerCodes ==
  { "INVALID_PATH", "MISSING_APP_ID", "INVALID_APP_ID", "INVALID_WORKSHOP_ID",
    "MISSING_USERNAME", "INVALID_PLATFORM", "INVALID_OPTIONS", "SPAWN_ERROR",
    "EXIT_ERROR" }

\* C24: install / update / validate invoke the runner only once
\* ensureInstalled has resolved; when the download fails the operation is
\* rejected with a SteamCmdError INSTALL_FAILED whose cause is the download
\* error, the runner is not invoked and no process is spawned.
C24_RunOnlyAfterEnsured ==
  request.op \in PromiseOps =>
    /\ RunnerInvoked => Ensured
    /\ DownloadFailed =>
         /\ stage = "settled"
         /\ Len(outcome) = 1
         /\ outcome[1].k = "rejected"
         /\ outcome[1].error.code = "INSTALL_FAILED"
         /\ outcome[1].cause = DownloadError(ensure.download)
         /\ ~RunnerInvoked
         /\ ~Spawned

\* update() was rejected with INSTALL_FAILED caused by a network error of a
\* download that had reported progress
C24_Witness ==
  /\ request.op = "update"
  /\ ensure.download = "NETWORK_ERROR"
  /\ outcome # <<>>
  /\ outcome[1].error.code = "INSTALL_FAILED"
  /\ outcome[1].cause.code = "NETWORK_ERROR"
  /\ ProgressIdx # {}
  /\ pc = "idle"

C26_DownloadIffNotInstalled ==
  /\ ensure.calls > 0 <=> ensure.installed = "no"
  /\ ensure.installed = "yes" =>
       /\ ensure.calls = 0
       /\ ensure.download = "none"
       /\ ~RunnerInvoked => stage = "ready" /\ trace = <<>>

\* ensureInstalled resolved without download for an operation with a
\* progress sink
C26_Witness ==
  /\ ensure.installed = "yes"
  /\ stage = "ready"
  /\ ~RunnerInvoked
  /\ request.op = "install"
  /\ request.options.onProgress = Fn
  /\ ensure.calls = 0

\* C28: install with null or non-object options, and update / validate
\* with null options or options without applicationId, are rejected with a
\* SteamCmdError INVALID_OPTIONS before isInstalled is asked, without a
\* download and without a spawn.
C28_InvalidOptionsFirst ==
  ( \/ request.op = "install" /\ request.options.kind # "object"
    \/ /\ request.op \in {"update", "validate"}
       /\ \/ request.options.kind = "null"
          \/ request.options.applicationId = Undef ) =>
    /\ stage = "settled"
    /\ Len(outcome) = 1
    /\ outcome[1].k = "rejected"
    /\ outcome[1].error.code = "INVALID_OPTIONS"
    /\ outcome[1].cause = NoError
    /\ ensure.installed = "unknown"
    /\ ensure.calls = 0
    /\ ~RunnerInvoked
    /\ ~Spawned
    /\ trace = <<>>

\* validate({}) was rejected with INVALID_OPTIONS while the executable was
\* absent
C28_Witness ==
  /\ request.op = "validate"
  /\ request.options.kind = "object"
  /\ request.options.applicationId = Undef
  /\ binary = "absent"
  /\ outcome # <<>>
  /\ outcome[1].error.code = "INVALID_OPTIONS"

\* C29: a createProgressEmitter operation emits exactly one of 'complete'
\* and 'error', and no 'progress' or 'output' after it.
C29_OneOutcomeThenSilence ==
  request.op = "emitter" =>
    /\ Len(outcome) <= 1
    /\ (stage = "settled" /\ ~Continuing) => Len(outcome) = 1
    /\ outcome # <<>> =>
         \A i \in IndicesOf({"progress", "output"}) : i <= outcome[1].at

\* the part of C29 that counts the 'complete' and 'error' events
C29_OneOutcome ==
  request.op = "emitter" =>
    /\ Len(outcome) <= 1
    /\ stage = "settled" => Len(outcome) = 1

\* C27: the promise returned by install(path, options) agrees with what a
\* callback receives for the same path, options and child events, the
\* promise adapter's callback being that callback: resolved exactly when
\* the callback received null, rejected with the InstallError the callback
\* received otherwise.
C27_SurfacesAgree ==
  (surface = "promise" /\ Finished) =>
    /\ promise.state = "resolved"
         <=> \E i \in CallbackIdx : trace[i].err = NoError
    /\ promise.state = "rejected" =>
         \A i \in CallbackIdx : trace[i].err = promise.error

\* C30: success is signalled, and the 'complete' progress delivered, only
\* when the child closed with exit code 0.
C30_SuccessOnlyOnExitZero ==
  (SuccessSignalled \/ CompleteDelivered) => closeCode = Num(0)

\* the part of C30 about a child ended by a signal
C30_SignalKillNotSuccess ==
  closeCode = Null => ~SuccessSignalled /\ ~CompleteDelivered

\* what a step added to the trace
Added(before, after) == SubSeq(after, Len(before) + 1, Len(after))

\* C31: the step that receives a stdout chunk delivers at most one progress
\* event, the one parseProgress returns for the whole chunk (none when the
\* chunk matches no format), however many progress lines the chunk has,
\* and forwards the chunk to the output sink.
C31_OneProgressPerChunk ==
  [][stdoutChunks' # stdoutChunks =>
       /\ Len(ProgressOf(Added(trace, trace'))) <= 1
       /\ HasProgressSink =>
            ProgressOf(Added(trace, trace'))
              = ParsedOf(<<stdoutChunks'[Len(stdoutChunks')]>>)
       /\ HasOutputSink =>
            OutputOf(Added(trace, trace'), "stdout")
              = <<stdoutChunks'[Len(stdoutChunks')]>>
    ]_vars

\* a chunk of two progress lines was received, then a chunk in no format:
\* one parsed progress event (after 'starting'), two outputs
C31_Witness ==
  /\ HasProgressSink
  /\ HasOutputSink
  /\ stdoutChunks = <<TwoLineChunk, <<"L", "o", "a", "d", "i", "n", "g", "\n">> >>
  /\ Len(ProgressOf(trace)) = 2
  /\ ProgressOf(trace)[2].percent = Num(90)
  /\ Len(OutputOf(trace, "stdout")) = 2

\* C32: in install / update / validate, options that validateOptions
\* rejects end the operation before isInstalled looks for the executable
\* and before a download is started.
C32_ValidationBeforeEnsure ==
  (request.op \in PromiseOps /\ validateOptions(request.options) # "") =>
    /\ ensure.installed = "unknown"
    /\ ensure.calls = 0

\* the part of C32 about the download alone
C32_NoDownloadForInvalidOptions ==
  (request.op \in PromiseOps /\ validateOptions(request.options) # "") =>
    ensure.calls = 0

\* positions of the progress events with phase 'complete'
CompleteIdx == {i \in ProgressIdx : trace[i].progress.phase = <<"c", "o", "m", "p", "l", "e", "t", "e">>}

\* C33: in an install / update / validate operation with a progress sink,
\* the sink receives a progress with phase 'complete' at most once, and no
\* progress after it, also when the executable was downloaded first.
C33_CompleteOnceAndLast ==
  (request.op \in PromiseOps /\ request.options.onProgress = Fn) =>
    /\ Cardinality(CompleteIdx) <= 1
    /\ \A i \in CompleteIdx : \A j \in ProgressIdx : j <= i

\* C33 for the operations that found the executable in place
C33_CompleteOnceWithoutDownload ==
  (request.op \in PromiseOps /\ request.options.onProgress = Fn
     /\ ensure.calls = 0) =>
    /\ Cardinality(CompleteIdx) <= 1
    /\ \A i \in CompleteIdx : \A j \in ProgressIdx : j <= i

\* positions of the calls of the callback given to steamcmd.install
AdapterCalls == {i \in 1..Len(outcome) : outcome[i].k = "callback"}

\* C34: the callback given to steamcmd.install is called exactly once, with
\* null when the operation succeeded and with its SteamCmdError when it
\* failed, whether the callback returns or throws.
C34_AdapterCallsOnce ==
  request.callback # "none" =>
    /\ Cardinality(AdapterCalls) <= 1
    /\ (stage = "settled" /\ ~AdapterPending) => Cardinality(AdapterCalls) = 1
    /\ \A i \in AdapterCalls :
         IF outcome[1].k = "resolved" THEN outcome[i].error = NoError
         ELSE /\ outcome[i].error = outcome[1].error
              /\ outcome[i].cause = outcome[1].cause

\* C34 for a callback that returns
C34_ReturningCallbackOnce ==
  request.callback = "returns" =>
    /\ Cardinality(AdapterCalls) <= 1
    /\ (stage = "settled" /\ ~AdapterPending) => Cardinality(AdapterCalls) = 1
    /\ \A i \in AdapterCalls :
         IF outcome[1].k = "resolved" THEN outcome[i].error = NoError
         ELSE /\ outcome[i].error = outcome[1].error
              /\ outcome[i].cause = outcome[1].cause

\* positions of the arguments that begin with the prefix
Having(args, prefix) == {i \in 1..Len(args) : HasPrefix(args[i], prefix)}

\* C35: a run spawns only with options that passed validateOptions; the
\* arguments spawned are createArguments(options), with exactly one login
\* token, a set_steam_guard_code token only when the login is not
\* anonymous, and a workshop_download_item token exactly when workshopId
\* was given.
C35_SpawnedArguments ==
  \A i \in IndicesOf({"spawn"}) :
    /\ validateOptions(EffOptions(surface, options)) = ""
    /\ trace[i].args = createArguments(EffOptions(surface, options))
    /\ Cardinality(Having(trace[i].args, LoginPrefix)) = 1
    /\ Having(trace[i].args, SteamGuardPrefix) # {} =>
         \A j \in 1..Len(trace[i].args) :
           trace[i].args[j] # AnonymousLoginToken
    /\ Having(trace[i].args, WorkshopPrefix) # {}
         <=> options.workshopId # Undef

\* a run with credentials, a Steam Guard code and a workshop item spawned
C35_Witness ==
  /\ IndicesOf({"spawn"}) # {}
  /\ options.workshopId = Num(5)
  /\ options.steamGuardCode = Str(<<"g">>)
  /\ \A i \in IndicesOf({"spawn"}) :
       /\ Having(trace[i].args, SteamGuardPrefix) # {}
       /\ Having(trace[i].args, WorkshopPrefix) # {}

\* C36: where env.executable() returns null, install / update / validate
\* never invoke the runner: the operation is rejected by ensureInstalled
\* with INSTALL_FAILED caused by the DownloadError UNSUPPORTED_PLATFORM,
\* and the SteamCmdError UNSUPPORTED_PLATFORM after ensureInstalled is
\* never produced.
C36_UnsupportedFailsInEnsure ==
  (binary = "unsupported" /\ request.op \in PromiseOps) =>
    /\ ~RunnerInvoked
    /\ ~Spawned
    /\ stage # "ready"
    /\ \A i \in 1..Len(outcome) : outcome[i].error.code # "UNSUPPORTED_PLATFORM"
    /\ (stage = "settled" /\ ensure.installed # "unknown") =>
         /\ Len(outcome) = 1
         /\ outcome[1].k = "rejected"
         /\ outcome[1].error.code = "INSTALL_FAILED"
         /\ outcome[1].cause = DownloadError("UNSUPPORTED_PLATFORM")

\* install() on an unsupported platform was rejected with INSTALL_FAILED
C36_Witness ==
  /\ binary = "unsupported"
  /\ request.op = "install"
  /\ stage = "settled"
  /\ ensure.installed = "no"
  /\ ensure.calls = 1
  /\ outcome # <<>>
  /\ outcome[1].cause.code = "UNSUPPORTED_PLATFORM"

\* what the sinks and callback of call r have been given, in order
DeliveredTo(r) == [i \in 1..Len(pair.log[r]) |-> pair.log[r][i].ev]

\* the errors the callback of call r has been given
PairCallbackErrors(r) ==
  {pair.log[r][i].ev.err : i \in {j \in 1..Len(pair.log[r]) :
                                    pair.log[r][j].ev.k = "callback"}}

\* C37: with two install() calls in progress together, everything the sinks
\* and callback of a call are given comes from that call's own child: its
\* stderr chunks, its stdout chunks (followed by the exit line), one
\* completion at most per 'error'/'close' of its own child, and an
\* EXIT_ERROR whose stdout and stderr are the concatenation of the chunks of
\* its own child only.
C37_RunsShareNothing ==
  \A r \in Runs :
    /\ \A i \in 1..Len(pair.log[r]) : pair.log[r][i].from = r
    /\ OutputOf(DeliveredTo(r), "stderr") = pair.runs[r].writtenErr
    /\ SubSeq(OutputOf(DeliveredTo(r), "stdout"), 1, Len(pair.runs[r].written))
         = pair.runs[r].written
    /\ pair.runs[r].stdoutData = Concat(pair.runs[r].written)
    /\ pair.runs[r].stderrData = Concat(pair.runs[r].writtenErr)
    /\ \A err \in PairCallbackErrors(r) :
         err.code = "EXIT_ERROR" =>
           /\ err.stdout = Str(Concat(pair.runs[r].written))
           /\ err.stderr = Str(Concat(pair.runs[r].writtenErr))
    /\ pair.runs[r].proc = "none" => pair.log[r] = <<>>

\* call 1 has failed with EXIT_ERROR after its child wrote to both streams,
\* while the child of call 2, which wrote other chunks, is still running
C37_Witness ==
  /\ pair.runs[1].proc = "closed"
  /\ pair.runs[2].proc = "alive"
  /\ Len(pair.runs[1].written) > 0
  /\ Len(pair.runs[1].writtenErr) > 0
  /\ Len(pair.runs[2].written) > 0
  /\ pair.runs[2].written # pair.runs[1].written
  /\ \E err \in PairCallbackErrors(1) : err.code = "EXIT_ERROR"

\* some call of ensureInstalled() was made while the other was in progress
Overlapped == \E o \in Ops : ensuring.ops[o].overlapped

\* C38: when two ensureInstalled() calls overlap while the executable is
\* absent, at most one download is started and never two extractions run
\* into the data directory at the same time.
C38_AtMostOneDownload ==
  Overlapped =>
    /\ ensuring.downloads <= 1
    /\ Cardinality(ensuring.extracting) <= 1

\* what holds: calls that do not overlap start a second download only
\* after the first one failed
C38_SequentialOneDownload ==
  (~Overlapped /\ \A o \in Ops : ensuring.ops[o].pc # "failed")
    => ensuring.downloads <= 1

\* positions of the download log that are calls of the callback
DlCallbackIdx == {i \in 1..Len(dl.log) : dl.log[i].k = "callback"}

\* stages in which no further event of the call can arrive
DlSettled == {"returned", "finished", "disconnected"}

\* C39: download() calls its callback exactly once for every sequence of
\* request, response and extractor events (never twice, and once when no
\* further event can arrive), and the 'complete' progress is delivered only
\* immediately before callback(null).
C39_CallbackExactlyOnce ==
  /\ Cardinality(DlCallbackIdx) <= 1
  /\ dl.stage \in DlSettled => Cardinality(DlCallbackIdx) = 1
  /\ \A i \in 1..Len(dl.log) :
       (dl.log[i].k = "progress" /\ dl.log[i].phase = "complete")
         => /\ i < Len(dl.log)
            /\ dl.log[i + 1] = DlCallback("")

\* what holds: the callback is called at least once when no further event
\* can arrive, the 'complete' progress is followed at once by
\* callback(null), and callback(null) is the only callback of its call
C39_CompleteOnlyBeforeSuccess ==
  /\ dl.stage \in DlSettled => Cardinality(DlCallbackIdx) >= 1
  /\ \A i \in 1..Len(dl.log) :
       (dl.log[i].k = "progress" /\ dl.log[i].phase = "complete")
         => /\ i < Len(dl.log)
            /\ dl.log[i + 1] = DlCallback("")
  /\ \A i \in DlCallbackIdx :
       dl.log[i].code = ""
         => /\ DlCallbackIdx = {i}
            /\ i > 1
            /\ dl.log[i - 1].phase = "complete"

====
